---- MODULE Spec2Model ----
(***************************************************************************)
(* A model of bgslib (src/include/bgslib.hpp): the name-keyed factory      *)
(* BGS_Factory with its static self-registration, the IBGS capability      *)
(* contract (process / setParams / getParams) and the four strategies      *)
(* FrameDifference, AdaptiveBackgroundLearning,                            *)
(* AdaptiveSelectiveBackgroundLearning and WeightedMovingMean.             *)
(*                                                                         *)
(* Images are cv::Mat values: a channel count and a row-major sequence of  *)
(* pixels, each pixel a tuple of 8-bit samples.  Parameter values are      *)
(* std::string values: sequences of one-character strings, so that         *)
(* std::stoi / std::stod / std::to_string are computed digit by digit.     *)
(***************************************************************************)
EXTENDS Integers, Sequences, FiniteSets, TLC

(***************************************************************************)
(* Bounds of the model.                                                    *)
(***************************************************************************)
Cols == 3
MaxCalls == 3
MaxCfg == 1
MaxFeeds == 1
MaxSets == 2
MaxRegistryOps == 3
MaxFlagSets == 2
MaxPairs == 2
MaxThresholdSets == 2
MaxInstances == 2
MaxTouches == 2
MaxThreads == 2
MaxThreadCalls == 1
MaxLearnCalls == 2
MaxLearnSets == 2
MaxLoop == 3
MaxTwinCalls == 3

(***************************************************************************)
(* Program constants.                                                      *)
(***************************************************************************)
IntMax == 2147483647
DefaultThreshold == 15
DoubleScale == 10000000
DefaultAlpha == 500000
MaxU8 == 255

Abs(x) == IF x < 0 THEN -x ELSE x
Min(a, b) == IF a < b THEN a ELSE b
Max(a, b) == IF a > b THEN a ELSE b

(***************************************************************************)
(* std::string values and the numeric conversions of <string>.             *)
(***************************************************************************)
DigitChars == <<"0", "1", "2", "3", "4", "5", "6", "7", "8", "9">>

IsDigit(c) == \E k \in 1..10 : DigitChars[k] = c

DigitVal(c) == (CHOOSE k \in 1..10 : DigitChars[k] = c) - 1

IsSpace(c) == c = " "

RECURSIVE SkipSpace(_, _)
SkipSpace(s, i) ==
    IF i <= Len(s) /\ IsSpace(s[i]) THEN SkipSpace(s, i + 1) ELSE i

\* The digits of s from position i on, accumulated into acc in units of
\* `unit' per digit position; ovf when the value leaves the int range.
RECURSIVE ParseDigits(_, _, _, _, _)
ParseDigits(s, i, acc, n, ovf) ==
    IF i <= Len(s) /\ IsDigit(s[i])
    THEN LET d == DigitVal(s[i])
         IN  IF ovf \/ acc > (IntMax - d) \div 10
             THEN ParseDigits(s, i + 1, acc, n + 1, TRUE)
             ELSE ParseDigits(s, i + 1, acc * 10 + d, n + 1, FALSE)
    ELSE [val |-> acc, n |-> n, ovf |-> ovf, next |-> i]

\* std::stoi(str): leading white space, an optional sign, then decimal
\* digits; whatever follows the digits is ignored.  No digit at all throws
\* std::invalid_argument, a value outside int throws std::out_of_range.
stoi(s) ==
    LET i0  == SkipSpace(s, 1)
        neg == i0 <= Len(s) /\ s[i0] = "-"
        i1  == IF i0 <= Len(s) /\ s[i0] \in {"-", "+"} THEN i0 + 1 ELSE i0
        p   == ParseDigits(s, i1, 0, 0, FALSE)
    IN  IF p.n = 0 THEN [err |-> "invalid_argument", val |-> 0]
        ELSE IF p.ovf THEN [err |-> "out_of_range", val |-> 0]
        ELSE [err |-> "none", val |-> IF neg THEN -p.val ELSE p.val]

RECURSIVE DigitsOf(_)
DigitsOf(n) ==
    IF n < 10 THEN <<DigitChars[n + 1]>>
    ELSE Append(DigitsOf(n \div 10), DigitChars[(n % 10) + 1])

\* to_string_int that prints the magnitude and loses the sign.
to_string_int_unsigned(v) == DigitsOf(Abs(v))

\* std::to_string(int): "%d".
to_string_int(v) ==
    IF v < 0 THEN <<"-">> \o DigitsOf(-v) ELSE DigitsOf(v)

(***************************************************************************)
(* A double is modelled in fixed point: an integer count of 1/DoubleScale  *)
(* (seven decimal places, one more than "%f" prints).  The model's doubles *)
(* are the decimal texts without exponent of magnitude below 200.          *)
(***************************************************************************)
FracPlaces == 7
PrintPlaces == 6

RECURSIVE Pow10(_)
Pow10(n) == IF n = 0 THEN 1 ELSE 10 * Pow10(n - 1)

\* The fraction digits of s from position i on: the first FracPlaces of
\* them make the value, the rest are read and dropped.
RECURSIVE ParseFraction(_, _, _, _)
ParseFraction(s, i, acc, n) ==
    IF i <= Len(s) /\ IsDigit(s[i])
    THEN IF n < FracPlaces
         THEN ParseFraction(s, i + 1, acc * 10 + DigitVal(s[i]), n + 1)
         ELSE ParseFraction(s, i + 1, acc, n + 1)
    ELSE [val |-> acc * Pow10(FracPlaces - Min(n, FracPlaces)), n |-> n]

\* std::stod(str): leading white space, an optional sign, decimal digits
\* with an optional fraction; trailing text is ignored.  No digit at all
\* throws std::invalid_argument.
stod(s) ==
    LET i0   == SkipSpace(s, 1)
        neg  == i0 <= Len(s) /\ s[i0] = "-"
        i1   == IF i0 <= Len(s) /\ s[i0] \in {"-", "+"} THEN i0 + 1 ELSE i0
        ip   == ParseDigits(s, i1, 0, 0, FALSE)
        dot  == ip.next <= Len(s) /\ s[ip.next] = "."
        fp   == IF dot THEN ParseFraction(s, ip.next + 1, 0, 0)
                ELSE [val |-> 0, n |-> 0]
        mag  == ip.val * DoubleScale + fp.val
    IN  IF ip.n + fp.n = 0 THEN [err |-> "invalid_argument", val |-> 0]
        ELSE [err |-> "none", val |-> IF neg THEN -mag ELSE mag]

\* n written with exactly k digits, zero padded on the left.
RECURSIVE PadDigits(_, _)
PadDigits(n, k) ==
    IF k = 0 THEN <<>>
    ELSE Append(PadDigits(n \div 10, k - 1), DigitChars[(n % 10) + 1])

\* std::to_string(double): "%f", the value rounded to six decimal places.
to_string_double(a) ==
    LET m    == Abs(a)
        unit == Pow10(FracPlaces - PrintPlaces)
        q0   == m \div unit
        r    == m % unit
        q    == IF 2 * r > unit \/ (2 * r = unit /\ q0 % 2 = 1)
                THEN q0 + 1 ELSE q0
        one  == Pow10(PrintPlaces)
    IN  (IF a < 0 THEN <<"-">> ELSE <<>>)
        \o DigitsOf(q \div one) \o <<".">> \o PadDigits(q % one, PrintPlaces)

\* bool fields: (param.second == "true") on input, "true" / "false" on output.
StrTrue == <<"t", "r", "u", "e">>
StrFalse == <<"f", "a", "l", "s", "e">>
to_string_bool(b) == IF b THEN StrTrue ELSE StrFalse
\* parse_bool that also takes "True" and "1" for true.
parse_bool_lenient(s) == s \in {StrTrue, <<"T", "r", "u", "e">>, <<"1">>}
parse_bool(s) == s = StrTrue

(***************************************************************************)
(* cv::Mat values.  Every stored matrix is 8-bit unsigned (CV_8U); the     *)
(* CV_32F matrices are locals of process and are computed exactly, as      *)
(* fractions, where the code computes them in single precision.            *)
(***************************************************************************)
\* The frames of the model are one row of Cols pixels.
NPix == Cols

\* cv::Mat(): no data, reported by empty().
EmptyMat == [depth |-> "none", ch |-> 0, px |-> <<>>]

empty(m) == m.ch = 0

Mat8U(ch, px) == [depth |-> "8U", ch |-> ch, px |-> px]

\* cv::Mat::zeros(size, CV_8UC<ch>)
zeros(ch) == Mat8U(ch, [k \in 1..NPix |-> [c \in 1..ch |-> 0]])

\* src.copyTo(dst): dst is reallocated to the size and type of src.
copyTo(src) == src

\* saturate_cast<uchar>
saturate_u8(v) == Max(0, Min(MaxU8, v))

\* cvRound of the fraction num / den (den > 0): to nearest, ties to even.
cvRound(num, den) ==
    LET q == num \div den
        r == num - q * den
    IN  IF 2 * r > den \/ (2 * r = den /\ q % 2 = 1) THEN q + 1 ELSE q

\* cv::absdiff on two 8-bit matrices of one type.
absdiff(a, b) ==
    Mat8U(a.ch, [k \in 1..NPix |-> [c \in 1..a.ch |-> Abs(a.px[k][c] - b.px[k][c])]])

\* cv::cvtColor(m, m, cv::COLOR_BGR2GRAY) on 8-bit data: the fixed-point
\* form of 0.114 B + 0.587 G + 0.299 R.
cvtColorBGR2GRAY(m) ==
    Mat8U(1, [k \in 1..NPix |->
        <<(m.px[k][1] * 3735 + m.px[k][2] * 19235 + m.px[k][3] * 9798 + 16384)
            \div 32768>>])

\* cv::THRESH_TOZERO in the place of cv::THRESH_BINARY.
threshold_tozero(m, t) ==
    Mat8U(m.ch, [k \in 1..NPix |->
        [c \in 1..m.ch |-> IF m.px[k][c] > t THEN m.px[k][c] ELSE 0]])

\* cv::THRESH_BINARY_INV in the place of cv::THRESH_BINARY.
threshold_binary_inv(m, t) ==
    Mat8U(m.ch, [k \in 1..NPix |->
        [c \in 1..m.ch |-> IF m.px[k][c] > t THEN 0 ELSE MaxU8]])

\* threshold_binary with the comparison made inclusive.
threshold_binary_inclusive(m, t) ==
    Mat8U(m.ch, [k \in 1..NPix |->
        [c \in 1..m.ch |-> IF m.px[k][c] >= t THEN MaxU8 ELSE 0]])

\* cv::threshold(m, m, t, 255, cv::THRESH_BINARY): 255 where m > t, else 0.
threshold_binary(m, t) ==
    Mat8U(m.ch, [k \in 1..NPix |->
        [c \in 1..m.ch |-> IF m.px[k][c] > t THEN MaxU8 ELSE 0]])

\* The sample of the single-channel, one-row m at column j, the border
\* replicated (cv::BORDER_REPLICATE).
AtReplicate(m, j) == m.px[Max(1, Min(Cols, j))][1]

\* cv::medianBlur(m, m, 3) on a single-channel 8-bit matrix of one row: the
\* rows above and below the row are the row itself, replicated.
medianBlur(m) ==
    Mat8U(1, [k \in 1..NPix |->
        LET W == {<<di, dj>> : di \in {-1, 0, 1}, dj \in {-1, 0, 1}}
            v(w) == AtReplicate(m, k + w[2])
        IN  <<CHOOSE x \in {v(w) : w \in W} :
                /\ Cardinality({w \in W : v(w) < x}) <= 4
                /\ Cardinality({w \in W : v(w) <= x}) >= 5>>])

\* a * d = q * DoubleScale + r with 0 <= r < DoubleScale, for a fixed-point
\* double a and a sample d >= 0, computed without leaving the int range.
ScaledProduct(a, d) ==
    LET T   == 10000
        U   == DoubleScale \div T
        m   == Abs(a)
        hi  == (m \div T) * d + ((m % T) * d) \div T
        lo  == ((m % T) * d) % T
        q   == hi \div U
        r   == (hi % U) * T + lo
    IN  IF a >= 0 \/ r = 0 THEN [q |-> IF a >= 0 THEN q ELSE -q, r |-> r]
        ELSE [q |-> -q - 1, r |-> DoubleScale - r]

\* BlendSample that rounds every sum up to the next 8-bit value.
BlendSample_up(alpha, x, y) ==
    LET p1 == ScaledProduct(alpha, x)
        p2 == ScaledProduct(DoubleScale - alpha, y)
        q  == p1.q + p2.q + (p1.r + p2.r) \div DoubleScale
    IN  saturate_u8(q + 1)

\* One sample of (alpha * x + (1 - alpha) * y) in the normalised float
\* domain, converted back with convertTo(.., CV_8U, 255.0 / (maxVal -
\* minVal), -minVal), minVal = 0 and maxVal = 1.
BlendSample(alpha, x, y) ==
    LET p1 == ScaledProduct(alpha, x)
        p2 == ScaledProduct(DoubleScale - alpha, y)
        q  == p1.q + p2.q + (p1.r + p2.r) \div DoubleScale
        r  == (p1.r + p2.r) % DoubleScale
    IN  saturate_u8(IF 2 * r > DoubleScale \/ (2 * r = DoubleScale /\ q % 2 = 1)
                    THEN q + 1 ELSE q)

AllSamples(m, v) == \A k \in 1..NPix : \A c \in 1..m.ch : m.px[k][c] = v

(***************************************************************************)
(* IBGS: the state every strategy inherits, and the shared helper init.    *)
(***************************************************************************)
\* An init that hands the input back as the background image.
init_echo(img_input) == [img_outfg |-> zeros(1), img_outbg |-> img_input]

\* IBGS::init: the caller's two output matrices, reallocated on every call.
init(img_input) == [img_outfg |-> zeros(1), img_outbg |-> zeros(3)]

\* What a process call hands back: the instance after the call and the
\* caller's two output matrices.
Returned(self, fg, bg) == [self |-> self, img_output |-> fg, img_bgmodel |-> bg]

\* if (img_foreground.channels() == 3) cvtColor(.., COLOR_BGR2GRAY)
GrayIfColor(m) == IF m.ch = 3 THEN cvtColorBGR2GRAY(m) ELSE m

\* A blend that leaves the background where it is.
Blend_none(alpha, in, bg) == bg

\* alpha * in_f + (1 - alpha) * bg_f on every sample, stored back as 8 bit.
Blend(alpha, in, bg) ==
    Mat8U(bg.ch, [k \in 1..NPix |->
        [c \in 1..bg.ch |-> BlendSample(alpha, in.px[k][c], bg.px[k][c])]])

(***************************************************************************)
(* FrameDifference                                                         *)
(***************************************************************************)
FD_new ==
    [algorithmName |-> "FrameDifference", firstTime |-> TRUE,
     img_background |-> EmptyMat, img_foreground |-> EmptyMat,
     enableThreshold |-> TRUE, threshold |-> DefaultThreshold]

\* FD_process that keeps the frame it was seeded with as its model.
FD_process_stale(self, img_input) ==
    LET o    == init(img_input)
        diff == GrayIfColor(absdiff(self.img_background, img_input))
        fg   == IF self.enableThreshold
                THEN threshold_binary(diff, self.threshold) ELSE diff
    IN  IF empty(self.img_background)
        THEN Returned([self EXCEPT !.img_background = copyTo(img_input)],
                      o.img_outfg, o.img_outbg)
        ELSE Returned([self EXCEPT !.img_foreground = fg,
                                   !.firstTime = FALSE],
                      copyTo(fg), copyTo(self.img_background))

FD_process(self, img_input) ==
    LET o    == init(img_input)
        diff == GrayIfColor(absdiff(self.img_background, img_input))
        fg   == IF self.enableThreshold
                THEN threshold_binary(diff, self.threshold) ELSE diff
    IN  IF empty(self.img_background)
        THEN Returned([self EXCEPT !.img_background = copyTo(img_input)],
                      o.img_outfg, o.img_outbg)
        ELSE Returned([self EXCEPT !.img_foreground = fg,
                                   !.img_background = copyTo(img_input),
                                   !.firstTime = FALSE],
                      copyTo(fg), copyTo(img_input))

(***************************************************************************)
(* AdaptiveBackgroundLearning                                              *)
(***************************************************************************)
\* A constructor that starts with learning capped at zero frames.
ABL_new_capped ==
    [algorithmName |-> "AdaptiveBackgroundLearning", firstTime |-> TRUE,
     img_background |-> EmptyMat, img_foreground |-> EmptyMat,
     alpha |-> DefaultAlpha, maxLearningFrames |-> 0,
     currentLearningFrame |-> 0,
     enableThreshold |-> TRUE, threshold |-> DefaultThreshold]

ABL_new ==
    [algorithmName |-> "AdaptiveBackgroundLearning", firstTime |-> TRUE,
     img_background |-> EmptyMat, img_foreground |-> EmptyMat,
     alpha |-> DefaultAlpha, maxLearningFrames |-> -1,
     currentLearningFrame |-> 0,
     enableThreshold |-> TRUE, threshold |-> DefaultThreshold]

\* ABL_process with the counter compared by <=, so that it passes the cap.
ABL_process_overrun(self, img_input) ==
    LET bg0    == IF empty(self.img_background) THEN copyTo(img_input)
                  ELSE self.img_background
        diff   == absdiff(img_input, bg0)
        capped == self.maxLearningFrames > 0
                  /\ self.currentLearningFrame <= self.maxLearningFrames
        learn  == capped \/ self.maxLearningFrames = -1
        bg1    == IF learn THEN Blend(self.alpha, img_input, bg0) ELSE bg0
        gray   == GrayIfColor(diff)
        fg     == IF self.enableThreshold
                  THEN threshold_binary(gray, self.threshold) ELSE gray
    IN  Returned([self EXCEPT !.img_background = bg1,
                              !.currentLearningFrame =
                                  IF capped THEN @ + 1 ELSE @,
                              !.img_foreground = fg,
                              !.firstTime = FALSE],
                 copyTo(fg), copyTo(bg1))

\* ABL_process with the difference taken after the learning update.
ABL_process_postdiff(self, img_input) ==
    LET bg0    == IF empty(self.img_background) THEN copyTo(img_input)
                  ELSE self.img_background
        capped == self.maxLearningFrames > 0
                  /\ self.currentLearningFrame < self.maxLearningFrames
        learn  == capped \/ self.maxLearningFrames = -1
        bg1    == IF learn THEN Blend(self.alpha, img_input, bg0) ELSE bg0
        diff   == absdiff(img_input, bg1)
        gray   == GrayIfColor(diff)
        fg     == IF self.enableThreshold
                  THEN threshold_binary(gray, self.threshold) ELSE gray
    IN  Returned([self EXCEPT !.img_background = bg1,
                              !.currentLearningFrame =
                                  IF capped THEN @ + 1 ELSE @,
                              !.img_foreground = fg,
                              !.firstTime = FALSE],
                 copyTo(fg), copyTo(bg1))

ABL_process(self, img_input) ==
    LET bg0    == IF empty(self.img_background) THEN copyTo(img_input)
                  ELSE self.img_background
        \* |in_f - bg_f| scaled back by 255: the 8-bit difference itself
        diff   == absdiff(img_input, bg0)
        capped == self.maxLearningFrames > 0
                  /\ self.currentLearningFrame < self.maxLearningFrames
        learn  == capped \/ self.maxLearningFrames = -1
        bg1    == IF learn THEN Blend(self.alpha, img_input, bg0) ELSE bg0
        gray   == GrayIfColor(diff)
        fg     == IF self.enableThreshold
                  THEN threshold_binary(gray, self.threshold) ELSE gray
    IN  Returned([self EXCEPT !.img_background = bg1,
                              !.currentLearningFrame =
                                  IF capped THEN @ + 1 ELSE @,
                              !.img_foreground = fg,
                              !.firstTime = FALSE],
                 copyTo(fg), copyTo(bg1))

(***************************************************************************)
(* AdaptiveSelectiveBackgroundLearning                                     *)
(***************************************************************************)
ASBL_new ==
    [algorithmName |-> "AdaptiveSelectiveBackgroundLearning",
     firstTime |-> TRUE,
     img_background |-> EmptyMat, img_foreground |-> EmptyMat,
     alphaLearn |-> DefaultAlpha, alphaDetection |-> DefaultAlpha,
     learningFrames |-> -1, counter |-> 0,
     threshold |-> DefaultThreshold]

\* The per-pixel loop without its test of the mask.
SelectiveBlend_all(alpha, in, bg, fg) ==
    Mat8U(1, [k \in 1..NPix |->
        <<BlendSample(alpha, in.px[k][1], bg.px[k][1])>>])

\* The per-pixel loop of the selective branch: only where the mask is 0.
SelectiveBlend(alpha, in, bg, fg) ==
    Mat8U(1, [k \in 1..NPix |->
        IF fg.px[k][1] = 0
        THEN <<BlendSample(alpha, in.px[k][1], bg.px[k][1])>>
        ELSE bg.px[k]])

\* ASBL_process with the unconditional phase ended one call earlier
\* (counter < learningFrames).
ASBL_process_strict(self, img_input_) ==
    LET img_input == IF img_input_.ch = 3 THEN cvtColorBGR2GRAY(img_input_)
                     ELSE copyTo(img_input_)
        bg0   == IF empty(self.img_background) THEN copyTo(img_input)
                 ELSE self.img_background
        diff  == absdiff(img_input, bg0)
        fg    == medianBlur(threshold_binary(diff, self.threshold))
        learn == self.learningFrames > 0 /\ self.counter < self.learningFrames
        bg1   == IF learn THEN Blend(self.alphaLearn, img_input, bg0)
                 ELSE SelectiveBlend(self.alphaDetection, img_input, bg0, fg)
    IN  Returned([self EXCEPT !.img_background = bg1,
                              !.counter = IF learn THEN @ + 1 ELSE @,
                              !.img_foreground = fg,
                              !.firstTime = FALSE],
                 copyTo(fg), copyTo(bg1))

ASBL_process(self, img_input_) ==
    LET img_input == IF img_input_.ch = 3 THEN cvtColorBGR2GRAY(img_input_)
                     ELSE copyTo(img_input_)
        bg0   == IF empty(self.img_background) THEN copyTo(img_input)
                 ELSE self.img_background
        diff  == absdiff(img_input, bg0)
        fg    == medianBlur(threshold_binary(diff, self.threshold))
        learn == self.learningFrames > 0 /\ self.counter <= self.learningFrames
        bg1   == IF learn THEN Blend(self.alphaLearn, img_input, bg0)
                 ELSE SelectiveBlend(self.alphaDetection, img_input, bg0, fg)
    IN  Returned([self EXCEPT !.img_background = bg1,
                              !.counter = IF learn THEN @ + 1 ELSE @,
                              !.img_foreground = fg,
                              !.firstTime = FALSE],
                 copyTo(fg), copyTo(bg1))

(***************************************************************************)
(* WeightedMovingMean                                                      *)
(***************************************************************************)
WMM_new ==
    [algorithmName |-> "WeightedMovingMean", firstTime |-> TRUE,
     img_background |-> EmptyMat, img_foreground |-> EmptyMat,
     img_input_prev_1 |-> EmptyMat, img_input_prev_2 |-> EmptyMat,
     enableWeight |-> TRUE, enableThreshold |-> TRUE,
     threshold |-> DefaultThreshold]

\* MovingMean with weights 0.5 / 0.3 / 0.3, which do not sum to one.
MovingMean_heavy(enableWeight, in, p1, p2) ==
    Mat8U(in.ch, [k \in 1..NPix |-> [c \in 1..in.ch |->
        saturate_u8(
            IF enableWeight
            THEN cvRound(5 * in.px[k][c] + 3 * p1.px[k][c] + 3 * p2.px[k][c], 10)
            ELSE cvRound(in.px[k][c] + p1.px[k][c] + p2.px[k][c], 3))]])

\* MovingMean with the weights in the reverse order: 0.2 on the input and
\* 0.5 on the oldest frame.
MovingMean_reversed(enableWeight, in, p1, p2) ==
    Mat8U(in.ch, [k \in 1..NPix |-> [c \in 1..in.ch |->
        saturate_u8(
            IF enableWeight
            THEN cvRound(2 * in.px[k][c] + 3 * p1.px[k][c] + 5 * p2.px[k][c], 10)
            ELSE cvRound(in.px[k][c] + p1.px[k][c] + p2.px[k][c], 3))]])

\* in_f * 0.5 + prev_1_f * 0.3 + prev_2_f * 0.2, or the plain mean of the
\* three, stored back with convertTo(.., CV_8U, 255.0).
MovingMean(enableWeight, in, p1, p2) ==
    Mat8U(in.ch, [k \in 1..NPix |-> [c \in 1..in.ch |->
        saturate_u8(
            IF enableWeight
            THEN cvRound(5 * in.px[k][c] + 3 * p1.px[k][c] + 2 * p2.px[k][c], 10)
            ELSE cvRound(in.px[k][c] + p1.px[k][c] + p2.px[k][c], 3))]])

\* WMM_process that shifts its history in the wrong order once warmed up:
\* the input goes to previous-1 first, and previous-2 is copied from it.
WMM_process_misshift(self, img_input) ==
    LET o    == init(img_input)
        bg   == MovingMean(self.enableWeight, img_input,
                           self.img_input_prev_1, self.img_input_prev_2)
        gray == GrayIfColor(absdiff(img_input, bg))
        fg   == IF self.enableThreshold
                THEN threshold_binary(gray, self.threshold) ELSE gray
    IN  IF empty(self.img_input_prev_1)
        THEN Returned([self EXCEPT !.img_input_prev_1 = copyTo(img_input)],
                      o.img_outfg, o.img_outbg)
        ELSE IF empty(self.img_input_prev_2)
        THEN Returned([self EXCEPT !.img_input_prev_2 = copyTo(self.img_input_prev_1),
                                   !.img_input_prev_1 = copyTo(img_input)],
                      o.img_outfg, o.img_outbg)
        ELSE Returned([self EXCEPT !.img_background = bg,
                                   !.img_foreground = fg,
                                   !.img_input_prev_2 = copyTo(img_input),
                                   !.img_input_prev_1 = copyTo(img_input),
                                   !.firstTime = FALSE],
                      copyTo(fg), copyTo(bg))

WMM_process(self, img_input) ==
    LET o    == init(img_input)
        bg   == MovingMean(self.enableWeight, img_input,
                           self.img_input_prev_1, self.img_input_prev_2)
        gray == GrayIfColor(absdiff(img_input, bg))
        fg   == IF self.enableThreshold
                THEN threshold_binary(gray, self.threshold) ELSE gray
    IN  IF empty(self.img_input_prev_1)
        THEN Returned([self EXCEPT !.img_input_prev_1 = copyTo(img_input)],
                      o.img_outfg, o.img_outbg)
        ELSE IF empty(self.img_input_prev_2)
        THEN Returned([self EXCEPT !.img_input_prev_2 = copyTo(self.img_input_prev_1),
                                   !.img_input_prev_1 = copyTo(img_input)],
                      o.img_outfg, o.img_outbg)
        ELSE Returned([self EXCEPT !.img_background = bg,
                                   !.img_foreground = fg,
                                   !.img_input_prev_2 = copyTo(self.img_input_prev_1),
                                   !.img_input_prev_1 = copyTo(img_input),
                                   !.firstTime = FALSE],
                      copyTo(fg), copyTo(bg))

\* The virtual call ibgs->process(img_input, img_output, img_bgmodel).
process(self, img_input) ==
    CASE self.algorithmName = "FrameDifference" -> FD_process(self, img_input)
      [] self.algorithmName = "AdaptiveBackgroundLearning" ->
             ABL_process(self, img_input)
      [] self.algorithmName = "AdaptiveSelectiveBackgroundLearning" ->
             ASBL_process(self, img_input)
      [] self.algorithmName = "WeightedMovingMean" -> WMM_process(self, img_input)

(***************************************************************************)
(* process on an empty frame.  init guards it with assert, which a build   *)
(* with NDEBUG compiles out; the call then runs on the empty matrix.       *)
(***************************************************************************)
\* How a call can end: the guard of init aborts the program, the call
\* returns to its caller, or an OpenCV function rejects an empty operand
\* with a cv::Exception the caller can catch.
Ended(outcome, self) ==
    [outcome |-> outcome, self |-> self,
     img_output |-> EmptyMat, img_bgmodel |-> EmptyMat]

\* FrameDifference: copyTo from an empty matrix leaves the model empty and
\* the call returns; with a model, absdiff rejects the operands.
FD_process_empty(self) ==
    IF empty(self.img_background)
    THEN {Ended("returned", [self EXCEPT !.img_background = copyTo(EmptyMat)])}
    ELSE {Ended("cv::Exception", self)}

\* AdaptiveBackgroundLearning: without a model every operand is empty, the
\* counter advances, and whether cv::threshold accepts the empty matrix
\* depends on the OpenCV release; with a model, absdiff rejects the operands.
ABL_process_empty(self) ==
    IF empty(self.img_background)
    THEN LET capped == self.maxLearningFrames > 0
                       /\ self.currentLearningFrame < self.maxLearningFrames
             after  == [self EXCEPT !.currentLearningFrame =
                                        IF capped THEN @ + 1 ELSE @]
         IN  IF self.enableThreshold
             THEN {Ended("returned", [after EXCEPT !.firstTime = FALSE]),
                   Ended("cv::Exception", after)}
             ELSE {Ended("returned", [after EXCEPT !.firstTime = FALSE])}
    ELSE {Ended("cv::Exception", self)}

\* AdaptiveSelectiveBackgroundLearning: cvtColor or medianBlur rejects the
\* empty matrix, or absdiff the operands.
ASBL_process_empty(self) == {Ended("cv::Exception", self)}

\* WeightedMovingMean: the two warm-up branches return, the second after
\* shifting the history; later the weighted sum rejects the operands.
WMM_process_empty(self) ==
    IF empty(self.img_input_prev_1)
    THEN {Ended("returned", [self EXCEPT !.img_input_prev_1 = copyTo(EmptyMat)])}
    ELSE IF empty(self.img_input_prev_2)
    THEN {Ended("returned",
                [self EXCEPT !.img_input_prev_2 = copyTo(self.img_input_prev_1),
                             !.img_input_prev_1 = copyTo(EmptyMat)])}
    ELSE {Ended("cv::Exception", self)}

\* ibgs->process(cv::Mat(), ..): the ways the call can end in a build with
\* (NDEBUG) or without the assert compiled out.
process_empty(self, NDEBUG) ==
    IF ~NDEBUG THEN {Ended("abort", self)}
    ELSE CASE self.algorithmName = "FrameDifference" -> FD_process_empty(self)
           [] self.algorithmName = "AdaptiveBackgroundLearning" ->
                  ABL_process_empty(self)
           [] self.algorithmName = "AdaptiveSelectiveBackgroundLearning" ->
                  ASBL_process_empty(self)
           [] self.algorithmName = "WeightedMovingMean" -> WMM_process_empty(self)

(***************************************************************************)
(* setParams / getParams.  A parameter set is a std::map<std::string,      *)
(* std::string>: a function from keys to texts, iterated in key order.     *)
(***************************************************************************)
\* The keys the model uses, in the order std::map iterates them
\* (std::less<std::string>); "history" is a key no strategy recognises.
KeyOrder ==
    <<"alpha", "alphaDetection", "alphaLearn", "enableThreshold",
      "enableWeight", "history", "learningFrames", "maxLearningFrames",
      "threshold">>

KeysOf(order) == {order[i] : i \in 1..Len(order)}

\* One pass of the loop body: the instance after the assignment, or the
\* exception the conversion throws (the instance is then as before).
Assigned(self) == [self |-> self, err |-> "none"]
Converted(self, conv, field) ==
    IF conv.err = "none" THEN Assigned([self EXCEPT ![field] = conv.val])
    ELSE [self |-> self, err |-> conv.err]

\* FD_setParam that drops the stored frame whenever thresholding is
\* switched.
FD_setParam_reseed(self, key, value) ==
    IF key = "enableThreshold"
    THEN Assigned([self EXCEPT !.enableThreshold = parse_bool(value),
                               !.img_background = EmptyMat])
    ELSE IF key = "threshold" THEN Converted(self, stoi(value), "threshold")
    ELSE Assigned(self)

FD_setParam(self, key, value) ==
    IF key = "enableThreshold"
    THEN Assigned([self EXCEPT !.enableThreshold = parse_bool(value)])
    ELSE IF key = "threshold" THEN Converted(self, stoi(value), "threshold")
    ELSE Assigned(self)

\* ABL_setParam that converts alpha with std::stoi, as the int keys are.
ABL_setParam_stoi(self, key, value) ==
    IF key = "alpha" THEN Converted(self, stoi(value), "alpha")
    ELSE IF key = "maxLearningFrames"
    THEN Converted(self, stoi(value), "maxLearningFrames")
    ELSE IF key = "enableThreshold"
    THEN Assigned([self EXCEPT !.enableThreshold = parse_bool(value)])
    ELSE IF key = "threshold" THEN Converted(self, stoi(value), "threshold")
    ELSE Assigned(self)

ABL_setParam(self, key, value) ==
    IF key = "alpha" THEN Converted(self, stod(value), "alpha")
    ELSE IF key = "maxLearningFrames"
    THEN Converted(self, stoi(value), "maxLearningFrames")
    ELSE IF key = "enableThreshold"
    THEN Assigned([self EXCEPT !.enableThreshold = parse_bool(value)])
    ELSE IF key = "threshold" THEN Converted(self, stoi(value), "threshold")
    ELSE Assigned(self)

ASBL_setParam(self, key, value) ==
    IF key = "alphaLearn" THEN Converted(self, stod(value), "alphaLearn")
    ELSE IF key = "alphaDetection"
    THEN Converted(self, stod(value), "alphaDetection")
    ELSE IF key = "learningFrames"
    THEN Converted(self, stoi(value), "learningFrames")
    ELSE IF key = "threshold" THEN Converted(self, stoi(value), "threshold")
    ELSE Assigned(self)

WMM_setParam(self, key, value) ==
    IF key = "enableWeight"
    THEN Assigned([self EXCEPT !.enableWeight = parse_bool(value)])
    ELSE IF key = "enableThreshold"
    THEN Assigned([self EXCEPT !.enableThreshold = parse_bool(value)])
    ELSE IF key = "threshold" THEN Converted(self, stoi(value), "threshold")
    ELSE Assigned(self)

\* The body of "for (const auto& param : params)" of the instance's class.
setParam(self, key, value) ==
    CASE self.algorithmName = "FrameDifference" -> FD_setParam(self, key, value)
      [] self.algorithmName = "AdaptiveBackgroundLearning" ->
             ABL_setParam(self, key, value)
      [] self.algorithmName = "AdaptiveSelectiveBackgroundLearning" ->
             ASBL_setParam(self, key, value)
      [] self.algorithmName = "WeightedMovingMean" ->
             WMM_setParam(self, key, value)

\* A loop that catches the exception of a key, goes on with the keys after
\* it and rethrows the first exception when the loop is done.
RECURSIVE setParamsKeepGoing(_, _, _, _, _)
setParamsKeepGoing(self, params, i, visited, threw) ==
    IF i > Len(KeyOrder)
    THEN [self |-> self, threw |-> threw, visited |-> visited]
    ELSE IF KeyOrder[i] \notin DOMAIN params
    THEN setParamsKeepGoing(self, params, i + 1, visited, threw)
    ELSE LET r == setParam(self, KeyOrder[i], params[KeyOrder[i]])
         IN  IF r.err # "none"
             THEN setParamsKeepGoing(self, params, i + 1, visited,
                                     IF threw = "none" THEN r.err ELSE threw)
             ELSE setParamsKeepGoing(r.self, params, i + 1,
                                     visited \cup {KeyOrder[i]}, threw)

setParamsFrom_keepGoing(self, params, i, visited) ==
    setParamsKeepGoing(self, params, i, visited, "none")

\* The loop from the i-th key on.  An exception leaves the loop and the
\* function at once: `threw' names it, `visited' are the keys whose loop
\* body ran to its end.
RECURSIVE setParamsFrom(_, _, _, _)
setParamsFrom(self, params, i, visited) ==
    IF i > Len(KeyOrder)
    THEN [self |-> self, threw |-> "none", visited |-> visited]
    ELSE IF KeyOrder[i] \notin DOMAIN params
    THEN setParamsFrom(self, params, i + 1, visited)
    ELSE LET r == setParam(self, KeyOrder[i], params[KeyOrder[i]])
         IN  IF r.err # "none"
             THEN [self |-> self, threw |-> r.err, visited |-> visited]
             ELSE setParamsFrom(r.self, params, i + 1,
                                visited \cup {KeyOrder[i]})

\* setParams that starts from the constructor's values of the instance's
\* class, so that a key absent from params falls back to its default.
setParams_fromDefaults(self, params) ==
    LET fresh == CASE self.algorithmName = "FrameDifference" -> FD_new
                   [] self.algorithmName = "AdaptiveBackgroundLearning" -> ABL_new
                   [] self.algorithmName = "AdaptiveSelectiveBackgroundLearning" ->
                          ASBL_new
                   [] self.algorithmName = "WeightedMovingMean" -> WMM_new
        reset == [f \in DOMAIN self |->
                     IF f \in KeysOf(KeyOrder) THEN fresh[f] ELSE self[f]]
    IN  setParamsFrom(reset, params, 1, {})

setParams(self, params) == setParamsFrom(self, params, 1, {})

FD_getParams(self) ==
    [k \in {"enableThreshold", "threshold"} |->
        IF k = "enableThreshold" THEN to_string_bool(self.enableThreshold)
        ELSE to_string_int(self.threshold)]

\* ABL_getParams that leaves the frame cap out of the map.
ABL_getParams_short(self) ==
    [k \in {"alpha", "enableThreshold", "threshold"} |->
        CASE k = "alpha" -> to_string_double(self.alpha)
          [] k = "enableThreshold" -> to_string_bool(self.enableThreshold)
          [] k = "threshold" -> to_string_int(self.threshold)]

ABL_getParams(self) ==
    [k \in {"alpha", "maxLearningFrames", "enableThreshold", "threshold"} |->
        CASE k = "alpha" -> to_string_double(self.alpha)
          [] k = "maxLearningFrames" -> to_string_int(self.maxLearningFrames)
          [] k = "enableThreshold" -> to_string_bool(self.enableThreshold)
          [] k = "threshold" -> to_string_int(self.threshold)]

ASBL_getParams(self) ==
    [k \in {"alphaLearn", "alphaDetection", "learningFrames", "threshold"} |->
        CASE k = "alphaLearn" -> to_string_double(self.alphaLearn)
          [] k = "alphaDetection" -> to_string_double(self.alphaDetection)
          [] k = "learningFrames" -> to_string_int(self.learningFrames)
          [] k = "threshold" -> to_string_int(self.threshold)]

WMM_getParams(self) ==
    [k \in {"enableWeight", "enableThreshold", "threshold"} |->
        CASE k = "enableWeight" -> to_string_bool(self.enableWeight)
          [] k = "enableThreshold" -> to_string_bool(self.enableThreshold)
          [] k = "threshold" -> to_string_int(self.threshold)]

getParams(self) ==
    CASE self.algorithmName = "FrameDifference" -> FD_getParams(self)
      [] self.algorithmName = "AdaptiveBackgroundLearning" -> ABL_getParams(self)
      [] self.algorithmName = "AdaptiveSelectiveBackgroundLearning" ->
             ASBL_getParams(self)
      [] self.algorithmName = "WeightedMovingMean" -> WMM_getParams(self)

(***************************************************************************)
(* BGS_Factory and the static BGS_Register objects.                        *)
(***************************************************************************)
\* bgs_register(x) for the four classes, in the order the header defines
\* them: each is a static object whose constructor registers "new x()".
\* A header in which WeightedMovingMean has no bgs_register line.
StaticRegistrations_unlisted ==
    <<"FrameDifference", "AdaptiveBackgroundLearning",
      "AdaptiveSelectiveBackgroundLearning">>

StaticRegistrations ==
    <<"FrameDifference", "AdaptiveBackgroundLearning",
      "AdaptiveSelectiveBackgroundLearning", "WeightedMovingMean">>

BuiltinNames == {StaticRegistrations[i] : i \in 1..Len(StaticRegistrations)}

\* What a factory function does when called: the four "new T()" lambdas
\* construct a T; a function registered by a caller may also throw, an
\* exception derived from std::exception or any other object.
FactoryFunctions == BuiltinNames \cup {"throws_std_exception", "throws_other"}

\* T::T(): the instance a "new T()" lambda returns.
Construct(T) ==
    CASE T = "FrameDifference" -> FD_new
      [] T = "AdaptiveBackgroundLearning" -> ABL_new
      [] T = "AdaptiveSelectiveBackgroundLearning" -> ASBL_new
      [] T = "WeightedMovingMean" -> WMM_new

\* Registration with std::map::insert, which keeps an existing binding.
RegisterFactoryFunction_insert(reg, err, name, fn) ==
    [registry |-> [n \in DOMAIN reg \cup {name} |->
                      IF n \in DOMAIN reg THEN reg[n] ELSE fn],
     cerr |-> IF name \in DOMAIN reg
              THEN Append(err, <<"Warning: Overwriting", name>>) ELSE err,
     result |-> TRUE]

\* factoryFunctionRegistry[name] = classFactoryFunction, with the warning
\* written to std::cerr when the name is already bound.
RegisterFactoryFunction(reg, err, name, fn) ==
    [registry |-> [n \in DOMAIN reg \cup {name} |->
                      IF n = name THEN fn ELSE reg[n]],
     cerr |-> IF name \in DOMAIN reg
              THEN Append(err, <<"Warning: Overwriting", name>>) ELSE err,
     result |-> TRUE]

\* BGS_Factory::Create(name): the outcome seen by the caller.  `instance'
\* is the object behind the returned shared_ptr when result is "instance".
FactoryCreate(reg, err, name) ==
    IF name \notin DOMAIN reg
    THEN [result |-> "nullptr", instance |-> <<>>,
          cerr |-> Append(err, <<"not found in registry", name>>)]
    ELSE IF reg[name] = "throws_std_exception"
    THEN [result |-> "nullptr", instance |-> <<>>,
          cerr |-> Append(err, <<"Error creating instance", name>>)]
    ELSE IF reg[name] = "throws_other"
    THEN [result |-> "exception", instance |-> <<>>, cerr |-> err]
    ELSE [result |-> "instance", instance |-> <<Construct(reg[name])>>,
          cerr |-> err]

\* BGS_Factory::GetRegisteredAlgorithmsName(): the keys of the table.
GetRegisteredAlgorithmsName(reg) == DOMAIN reg

\* The names of the model in the order of std::less<std::string>, the
\* order in which an iterator walks the table.
NameOrder ==
    <<"AdaptiveBackgroundLearning", "AdaptiveSelectiveBackgroundLearning",
      "FrameDifference", "StaticFrameDifference", "WeightedMovingMean">>

\* A lookup with factoryFunctionRegistry[name], which inserts an empty
\* function under a name the table does not hold.
find_subscript(reg, name) ==
    [registry |-> [n \in DOMAIN reg \cup {name} |->
                      IF n \in DOMAIN reg THEN reg[n] ELSE "empty_function"],
     found |-> TRUE,
     fn |-> IF name \in DOMAIN reg THEN reg[name] ELSE "empty_function"]

\* factoryFunctionRegistry.find(name): the table as the lookup leaves it,
\* whether the name is bound, and the function it is bound to.
find(reg, name) ==
    [registry |-> reg,
     found |-> name \in DOMAIN reg,
     fn |-> IF name \in DOMAIN reg THEN reg[name] ELSE "none"]

\* begin() for it = 0, ++it otherwise: the position of the next name the
\* table holds, Len(NameOrder) + 1 standing for end().
NextKey(reg, it) ==
    IF \E j \in (it + 1)..Len(NameOrder) : NameOrder[j] \in DOMAIN reg
    THEN CHOOSE j \in (it + 1)..Len(NameOrder) :
             /\ NameOrder[j] \in DOMAIN reg
             /\ \A i \in (it + 1)..(j - 1) : NameOrder[i] \notin DOMAIN reg
    ELSE Len(NameOrder) + 1

\* The table once every static BGS_Register object has been constructed.
RECURSIVE BootRegistry(_)
BootRegistry(n) ==
    IF n = 0 THEN <<>>
    ELSE RegisterFactoryFunction(BootRegistry(n - 1), <<>>,
             StaticRegistrations[n], StaticRegistrations[n]).registry

(***************************************************************************)
(* Inputs: the frames a caller feeds and the parameter sets it passes.     *)
(***************************************************************************)
\* A frame whose pixels all carry the sample v in every channel.
Solid(ch, v) == Mat8U(ch, [k \in 1..NPix |-> [c \in 1..ch |-> v]])

\* A frame with a dim field and bright samples at every second pixel.
Spots(ch) ==
    Mat8U(ch, [k \in 1..NPix |-> [c \in 1..ch |->
        IF k % 2 = 0 THEN 230 - 30 * c ELSE 10 * c]])

Frames(ch) == {Solid(ch, 0), Solid(ch, MaxU8), Spots(ch)}

Txt20 == <<"2", "0">>
TxtMinus1 == <<"-", "1">>
Txt2 == <<"2">>
Txt0 == <<"0">>
TxtAbc == <<"a", "b", "c">>
TxtHalf == <<"0", ".", "5">>
TxtTiny == <<"0", ".", "0", "0", "0", "0", "0", "0", "3">>

\* The parameter sets callers pass.  Each mixes keys of several strategies,
\* so every strategy meets keys it does not recognise.
NegativeThreshold == [k \in {"threshold"} |-> TxtMinus1]

BadFirst ==
    [k \in {"alpha", "learningFrames", "threshold"} |->
        IF k = "threshold" THEN Txt20 ELSE TxtAbc]

BadMiddle ==
    [k \in {"alpha", "alphaDetection", "enableThreshold",
            "maxLearningFrames", "threshold"} |->
        CASE k = "maxLearningFrames" -> TxtAbc
          [] k = "enableThreshold" -> StrFalse
          [] k = "threshold" -> Txt20
          [] OTHER -> TxtHalf]

BadLast ==
    [k \in {"enableThreshold", "enableWeight", "history", "threshold"} |->
        CASE k = "threshold" -> TxtAbc
          [] k = "history" -> Txt20
          [] OTHER -> StrFalse]

Caps ==
    [k \in {"alpha", "alphaLearn", "learningFrames", "maxLearningFrames",
            "threshold"} |->
        CASE k \in {"alpha", "alphaLearn"} -> TxtTiny
          [] k = "threshold" -> Txt0
          [] OTHER -> Txt2]

\* Texts a caller may pass for a flag, and the parameter sets made of them.
TxtTrueCap == <<"T", "r", "u", "e">>
Txt1 == <<"1">>
TxtEmpty == <<>>

FlagsOn == [k \in {"enableThreshold", "enableWeight"} |-> StrTrue]

FlagsCapital ==
    [k \in {"enableThreshold", "enableWeight"} |->
        IF k = "enableThreshold" THEN TxtTrueCap ELSE Txt1]

FlagsEmpty ==
    [k \in {"enableThreshold", "enableWeight"} |->
        IF k = "enableThreshold" THEN TxtEmpty ELSE TxtTrueCap]

FlagsDigit ==
    [k \in {"enableThreshold", "enableWeight"} |->
        IF k = "enableThreshold" THEN Txt1 ELSE TxtEmpty]

FlagSets == {FlagsOn, FlagsCapital, FlagsEmpty, FlagsDigit, BadLast}

ParamSets == {NegativeThreshold, BadFirst, BadMiddle, BadLast, Caps}

(***************************************************************************)
(* The state.                                                              *)
(***************************************************************************)
VARIABLES
    registry,   \* BGS_Factory::factoryFunctionRegistry
    nStatic,    \* how many static BGS_Register objects are constructed
    cerr,       \* the lines written to std::cerr
    instances,  \* the IBGS objects created so far, each owned by its caller
    ret,        \* the call made last and what it returned to its caller
    hist,       \* the calls made so far: counts, the frame fed last
    threads     \* the calls in flight on each thread of a concurrent caller

vars == <<registry, nStatic, cerr, instances, ret, hist, threads>>

NoHistory ==
    [calls |-> 0, cfg |-> 0, ops |-> 0, last |-> EmptyMat, same |-> TRUE,
     bound |-> <<>>]

\* The factory, the log and the heap as a call found them.
Was == [registry |-> registry, cerr |-> cerr, instances |-> instances]

\* The instance the strategy specification drives.
inst == instances[1]

(***************************************************************************)
(* Spec: one instance of some strategy, created from the bootstrapped      *)
(* registry, then fed frames and parameter sets in any order.              *)
(***************************************************************************)
Init ==
    /\ registry = BootRegistry(Len(StaticRegistrations))
    /\ nStatic = Len(StaticRegistrations)
    /\ cerr = <<>>
    /\ \E name \in BuiltinNames :
          /\ instances = FactoryCreate(registry, cerr, name).instance
          /\ ret = [op |-> "Create", name |-> name, result |-> "instance",
                    was |-> [registry |-> registry, cerr |-> cerr,
                             instances |-> <<>>]]
    /\ hist = NoHistory
    /\ threads = <<>>

\* ibgs->process(f, img_output, img_bgmodel) with a non-empty frame of the
\* channel count of the frames before it.
Process(f) ==
    /\ empty(hist.last) \/ f.ch = hist.last.ch
    /\ LET r == process(inst, f)
       IN  /\ instances' = <<r.self>>
           /\ ret' = [op |-> "process", img_input |-> f,
                      img_output |-> r.img_output,
                      img_bgmodel |-> r.img_bgmodel]
    /\ hist' = [hist EXCEPT !.calls = @ + 1,
                            !.last = f,
                            !.same = @ /\ (empty(hist.last) \/ f = hist.last)]
    /\ UNCHANGED <<threads, registry, nStatic, cerr>>

\* What the caller of setParams(p) sees: the instance after the call and
\* the exception that ended it, if one did.
SetParamsResult(p, roundTrip) ==
    LET r == setParams(inst, p)
    IN  /\ instances' = <<r.self>>
        /\ ret' = [op |-> "setParams", params |-> p, threw |-> r.threw,
                   visited |-> r.visited, roundTrip |-> roundTrip,
                   before |-> inst]

\* ibgs->setParams(p)
SetParams(p) ==
    /\ SetParamsResult(p, FALSE)
    /\ hist' = [hist EXCEPT !.cfg = @ + 1]
    /\ UNCHANGED <<threads, registry, nStatic, cerr>>

\* ibgs->setParams(ibgs->getParams())
SetParamsOfGetParams ==
    /\ SetParamsResult(getParams(inst), TRUE)
    /\ UNCHANGED <<threads, registry, nStatic, cerr, hist>>

\* ibgs->getParams()
GetParams ==
    /\ ret' = [op |-> "getParams", params |-> getParams(inst)]
    /\ UNCHANGED <<threads, registry, nStatic, cerr, instances, hist>>

\* At most `limit' frames are fed, at most `limit' parameter sets passed.
Feed(limit) ==
    /\ hist.calls < limit
    /\ \E ch \in {1, 3} : \E f \in Frames(ch) : Process(f)

Configure(limit) ==
    /\ hist.cfg < limit
    /\ \E p \in ParamSets : SetParams(p)

Next ==
    \/ Feed(MaxCalls)
    \/ Configure(MaxCfg)

Spec == Init /\ [][Next]_vars

(***************************************************************************)
(* ConfigSpec: the configuration interface of one instance.  Parameter     *)
(* sets are passed and read back in any order, before or after a frame.    *)
(***************************************************************************)
ConfigNext ==
    \/ Feed(MaxFeeds)
    \/ Configure(MaxSets)
    \/ SetParamsOfGetParams
    \/ GetParams

ConfigSpec == Init /\ [][ConfigNext]_vars

(***************************************************************************)
(* FlagSpec: one instance whose flags are set from texts of every kind,     *)
(* before or after a frame.                                                *)
(***************************************************************************)
SetFlags ==
    /\ hist.cfg < MaxFlagSets
    /\ \E p \in FlagSets : SetParams(p)

FlagNext ==
    \/ Feed(MaxFeeds)
    \/ SetFlags
    \/ GetParams

FlagSpec == Init /\ [][FlagNext]_vars

(***************************************************************************)
(* ContractSpec: a caller that also passes empty frames, as a capture that *)
(* failed delivers them.                                                   *)
(***************************************************************************)
\* ibgs->process(cv::Mat(), img_output, img_bgmodel)
ProcessEmpty ==
    /\ \E NDEBUG \in BOOLEAN : \E r \in process_empty(inst, NDEBUG) :
          /\ instances' = <<r.self>>
          /\ ret' = [op |-> "process_empty", NDEBUG |-> NDEBUG,
                     outcome |-> r.outcome, img_output |-> r.img_output,
                     img_bgmodel |-> r.img_bgmodel, was |-> Was]
    /\ UNCHANGED <<threads, registry, nStatic, cerr, hist>>

ContractNext ==
    \/ Feed(MaxFeeds)
    \/ Configure(MaxCfg)
    \/ ProcessEmpty

ContractSpec == Init /\ [][ContractNext]_vars

(***************************************************************************)
(* ThresholdSpec: two FrameDifference instances that differ in their       *)
(* threshold at most and are handed the same frames.                       *)
(***************************************************************************)
Txt255 == <<"2", "5", "5">>
ThresholdTexts == {TxtMinus1, Txt0, Txt2, Txt20, Txt255}

ThresholdInit ==
    /\ registry = BootRegistry(Len(StaticRegistrations))
    /\ nStatic = Len(StaticRegistrations)
    /\ cerr = <<>>
    /\ instances = FactoryCreate(registry, cerr, "FrameDifference").instance
                       \o FactoryCreate(registry, cerr, "FrameDifference").instance
    /\ ret = [op |-> "none"]
    /\ hist = NoHistory
    /\ threads = <<>>

\* instances[i]->setParams({{"threshold", txt}})
SetThresholdAt(i, txt) ==
    /\ hist.cfg < MaxThresholdSets
    /\ LET r == setParams(instances[i], [k \in {"threshold"} |-> txt])
       IN  /\ instances' = [instances EXCEPT ![i] = r.self]
           /\ ret' = [op |-> "setThreshold", at |-> i, threw |-> r.threw]
    /\ hist' = [hist EXCEPT !.cfg = @ + 1]
    /\ UNCHANGED <<threads, registry, nStatic, cerr>>

\* The same frame handed to both instances.
ProcessBoth(f) ==
    /\ hist.calls < MaxPairs
    /\ empty(hist.last) \/ f.ch = hist.last.ch
    /\ LET r1 == process(instances[1], f)
           r2 == process(instances[2], f)
       IN  /\ instances' = <<r1.self, r2.self>>
           /\ ret' = [op |-> "processBoth", img_input |-> f,
                      img_output |-> <<r1.img_output, r2.img_output>>]
    /\ hist' = [hist EXCEPT !.calls = @ + 1, !.last = f]
    /\ UNCHANGED <<threads, registry, nStatic, cerr>>

ThresholdNext ==
    \/ \E i \in {1, 2}, txt \in ThresholdTexts : SetThresholdAt(i, txt)
    \/ \E ch \in {1, 3} : \E f \in Frames(ch) : ProcessBoth(f)

ThresholdSpec == ThresholdInit /\ [][ThresholdNext]_vars

(***************************************************************************)
(* RegistrySpec: the program from its start.  The static BGS_Register      *)
(* objects are constructed first, in the order of their definitions; then  *)
(* main runs and callers register, create and list in any order.           *)
(***************************************************************************)
\* A name no class registers (the demos ask for it), and the names and
\* functions callers register themselves.
UnregisteredName == "StaticFrameDifference"
CallerNames == {"FrameDifference", UnregisteredName}
CallerFunctions ==
    {"FrameDifference", "WeightedMovingMean", "throws_std_exception",
     "throws_other"}

RegistryInit ==
    /\ registry = <<>>
    /\ nStatic = 0
    /\ cerr = <<>>
    /\ instances = <<>>
    /\ ret = [op |-> "none"]
    /\ hist = NoHistory
    /\ threads = <<>>

\* The constructor of the next static BGS_Register<T> object.
StaticRegister ==
    /\ nStatic < Len(StaticRegistrations)
    /\ LET T == StaticRegistrations[nStatic + 1]
           r == RegisterFactoryFunction(registry, cerr, T, T)
       IN  /\ registry' = r.registry
           /\ cerr' = r.cerr
           /\ ret' = [op |-> "BGS_Register", name |-> T, result |-> r.result,
                      was |-> Was]
    /\ nStatic' = nStatic + 1
    /\ UNCHANGED <<threads, instances, hist>>

InMain == nStatic = Len(StaticRegistrations) /\ hist.ops < MaxRegistryOps

\* BGS_Factory::Instance()->RegisterFactoryFunction(name, fn) by a caller.
Register(name, fn) ==
    /\ InMain
    /\ LET r == RegisterFactoryFunction(registry, cerr, name, fn)
       IN  /\ registry' = r.registry
           /\ cerr' = r.cerr
           /\ ret' = [op |-> "RegisterFactoryFunction", name |-> name,
                      fn |-> fn, result |-> r.result, was |-> Was]
    /\ hist' = [hist EXCEPT !.ops = @ + 1,
                            !.bound = [n \in DOMAIN @ \cup {name} |->
                                          IF n = name THEN fn ELSE @[n]]]
    /\ UNCHANGED <<threads, nStatic, instances>>

\* BGS_Factory::Instance()->Create(name)
Create(name) ==
    /\ InMain
    /\ LET r == FactoryCreate(registry, cerr, name)
       IN  /\ cerr' = r.cerr
           /\ instances' = instances \o r.instance
           /\ ret' = [op |-> "Create", name |-> name, result |-> r.result,
                      was |-> Was]
    /\ hist' = [hist EXCEPT !.ops = @ + 1]
    /\ UNCHANGED <<threads, registry, nStatic>>

\* BGS_Factory::Instance()->GetRegisteredAlgorithmsName()
ListNames ==
    /\ InMain
    /\ ret' = [op |-> "GetRegisteredAlgorithmsName",
               names |-> GetRegisteredAlgorithmsName(registry), was |-> Was]
    /\ hist' = [hist EXCEPT !.ops = @ + 1]
    /\ UNCHANGED <<threads, registry, nStatic, cerr, instances>>

RegistryNext ==
    \/ StaticRegister
    \/ \E name \in CallerNames, fn \in CallerFunctions : Register(name, fn)
    \/ \E name \in BuiltinNames \cup {UnregisteredName} : Create(name)
    \/ ListNames

RegistrySpec == RegistryInit /\ [][RegistryNext]_vars

(***************************************************************************)
(* InstancesSpec: a caller that creates several instances, of one class or *)
(* of two, and works on them in any order.                                 *)
(***************************************************************************)
InstanceNames == {"AdaptiveBackgroundLearning", "WeightedMovingMean"}
InstanceFrames == {Solid(1, MaxU8), Spots(1)}
InstanceParamSets == {NegativeThreshold, Caps}

InstancesInit ==
    /\ registry = BootRegistry(Len(StaticRegistrations))
    /\ nStatic = Len(StaticRegistrations)
    /\ cerr = <<>>
    /\ instances = <<>>
    /\ ret = [op |-> "none"]
    /\ hist = NoHistory
    /\ threads = <<>>

CreateInstance(name) ==
    /\ Len(instances) < MaxInstances
    /\ Create(name)

\* ProcessAt with img_background a static member: one model for all the
\* instances of a class.
ProcessAt_static(i, f) ==
    /\ hist.calls + hist.cfg < MaxTouches
    /\ LET r == process(instances[i], f)
       IN  /\ instances' =
                  [j \in DOMAIN instances |->
                      IF j = i THEN r.self
                      ELSE IF instances[j].algorithmName = r.self.algorithmName
                      THEN [instances[j] EXCEPT !.img_background =
                                                    r.self.img_background]
                      ELSE instances[j]]
           /\ ret' = [op |-> "processAt", at |-> i, img_input |-> f,
                      img_output |-> r.img_output,
                      img_bgmodel |-> r.img_bgmodel, was |-> Was]
    /\ hist' = [hist EXCEPT !.calls = @ + 1]
    /\ UNCHANGED <<threads, registry, nStatic, cerr>>

\* instances[i]->process(f, img_output, img_bgmodel)
ProcessAt(i, f) ==
    /\ hist.calls + hist.cfg < MaxTouches
    /\ LET r == process(instances[i], f)
       IN  /\ instances' = [instances EXCEPT ![i] = r.self]
           /\ ret' = [op |-> "processAt", at |-> i, img_input |-> f,
                      img_output |-> r.img_output,
                      img_bgmodel |-> r.img_bgmodel, was |-> Was]
    /\ hist' = [hist EXCEPT !.calls = @ + 1]
    /\ UNCHANGED <<threads, registry, nStatic, cerr>>

\* instances[i]->setParams(p)
SetParamsAt(i, p) ==
    /\ hist.calls + hist.cfg < MaxTouches
    /\ LET r == setParams(instances[i], p)
       IN  /\ instances' = [instances EXCEPT ![i] = r.self]
           /\ ret' = [op |-> "setParamsAt", at |-> i, params |-> p,
                      threw |-> r.threw, was |-> Was]
    /\ hist' = [hist EXCEPT !.cfg = @ + 1]
    /\ UNCHANGED <<threads, registry, nStatic, cerr>>

InstancesNext ==
    \/ \E name \in InstanceNames : CreateInstance(name)
    \/ \E i \in DOMAIN instances : \E f \in InstanceFrames : ProcessAt(i, f)
    \/ \E i \in DOMAIN instances : \E p \in InstanceParamSets : SetParamsAt(i, p)

InstancesSpec == InstancesInit /\ [][InstancesNext]_vars

(***************************************************************************)
(* ConcurrentSpec: after static registration, several threads call Create  *)
(* and GetRegisteredAlgorithmsName at once.  A call is a sequence of steps, *)
(* each reading the table once, and the steps of the threads interleave.   *)
(***************************************************************************)
ThreadIds == 1..MaxThreads
ThreadNames == {"FrameDifference", UnregisteredName}

Idle == [pc |-> "idle", calls |-> 0]

ConcurrentInit ==
    /\ registry = BootRegistry(Len(StaticRegistrations))
    /\ nStatic = Len(StaticRegistrations)
    /\ cerr = <<>>
    /\ instances = <<>>
    /\ ret = [op |-> "none"]
    /\ hist = NoHistory
    /\ threads = [t \in ThreadIds |-> Idle]

Between(t) == threads[t].pc \in {"idle", "returned"}

\* Thread t enters Create(name).
CallCreate(t, name) ==
    /\ Between(t) /\ threads[t].calls < MaxThreadCalls
    /\ threads' = [threads EXCEPT ![t] =
                      [pc |-> "find", op |-> "Create", name |-> name,
                       calls |-> threads[t].calls + 1]]
    /\ UNCHANGED <<registry, nStatic, cerr, instances, ret, hist>>

\* auto it = factoryFunctionRegistry.find(name);
Find(t) ==
    /\ threads[t].pc = "find"
    /\ LET r == find(registry, threads[t].name)
       IN  /\ registry' = r.registry
           /\ threads' = [threads EXCEPT ![t] =
                  [pc |-> IF r.found THEN "invoke" ELSE "miss", op |-> "Create",
                   name |-> @.name, fn |-> r.fn, calls |-> @.calls]]
    /\ UNCHANGED <<nStatic, cerr, instances, ret, hist>>

\* IBGS* instance = it->second(); return std::shared_ptr<IBGS>(instance);
Invoke(t) ==
    /\ threads[t].pc = "invoke"
    /\ LET fn == threads[t].fn
           ok == fn \in BuiltinNames
       IN  /\ threads' = [threads EXCEPT ![t] =
                  [pc |-> "returned", op |-> "Create", name |-> @.name,
                   result |-> IF ok THEN "instance"
                              ELSE IF fn = "throws_other" THEN "exception"
                              ELSE "nullptr",
                   instance |-> IF ok THEN <<Construct(fn)>> ELSE <<>>,
                   calls |-> @.calls]]
           /\ cerr' = IF ok \/ fn = "throws_other" THEN cerr
                      ELSE Append(cerr, <<"Error creating instance",
                                         threads[t].name>>)
    /\ UNCHANGED <<registry, nStatic, instances, ret, hist>>

\* std::cerr << "Algorithm '" << name << "' not found ..."; return nullptr;
Miss(t) ==
    /\ threads[t].pc = "miss"
    /\ threads' = [threads EXCEPT ![t] =
                      [pc |-> "returned", op |-> "Create", name |-> @.name,
                       result |-> "nullptr", instance |-> <<>>,
                       calls |-> @.calls]]
    /\ cerr' = Append(cerr, <<"not found in registry", threads[t].name>>)
    /\ UNCHANGED <<registry, nStatic, instances, ret, hist>>

\* Thread t enters GetRegisteredAlgorithmsName(): it = begin().
CallList(t) ==
    /\ Between(t) /\ threads[t].calls < MaxThreadCalls
    /\ threads' = [threads EXCEPT ![t] =
                      [pc |-> "iterate", op |-> "GetRegisteredAlgorithmsName",
                       it |-> NextKey(registry, 0), algorithmsName |-> <<>>,
                       calls |-> threads[t].calls + 1]]
    /\ UNCHANGED <<registry, nStatic, cerr, instances, ret, hist>>

\* it != end(): algorithmsName.push_back(it->first); ++it;  else return.
Iterate(t) ==
    /\ threads[t].pc = "iterate"
    /\ threads' = [threads EXCEPT ![t] =
          IF @.it > Len(NameOrder)
          THEN [pc |-> "returned", op |-> "GetRegisteredAlgorithmsName",
                algorithmsName |-> @.algorithmsName, calls |-> @.calls]
          ELSE [@ EXCEPT !.algorithmsName = Append(@, NameOrder[threads[t].it]),
                         !.it = NextKey(registry, @)]]
    /\ UNCHANGED <<registry, nStatic, cerr, instances, ret, hist>>

ConcurrentNext ==
    \E t \in ThreadIds :
        \/ \E name \in ThreadNames : CallCreate(t, name)
        \/ Find(t)
        \/ Invoke(t)
        \/ Miss(t)
        \/ CallList(t)
        \/ Iterate(t)

ConcurrentSpec == ConcurrentInit /\ [][ConcurrentNext]_vars

(***************************************************************************)
(* LearningSpec: one of the two learning strategies, fed frames and        *)
(* reconfigured between them, each call recorded with the instance it      *)
(* found.                                                                  *)
(***************************************************************************)
\* A frame with one bright pixel at its left edge.
Edge(ch) ==
    Mat8U(ch, [k \in 1..NPix |-> [c \in 1..ch |-> IF k = 1 THEN 200 ELSE 10]])

\* A cap of one frame, for either learning strategy.
LowerCap == [k \in {"learningFrames", "maxLearningFrames"} |-> Txt1]

LearningInit ==
    /\ registry = BootRegistry(Len(StaticRegistrations))
    /\ nStatic = Len(StaticRegistrations)
    /\ cerr = <<>>
    /\ \E name \in {"AdaptiveBackgroundLearning",
                     "AdaptiveSelectiveBackgroundLearning"} :
          /\ instances = FactoryCreate(registry, cerr, name).instance
          /\ ret = [op |-> "Create", name |-> name, result |-> "instance",
                    was |-> [registry |-> registry, cerr |-> cerr,
                             instances |-> <<>>]]
    /\ hist = NoHistory
    /\ threads = <<>>

\* ibgs->process(f, img_output, img_bgmodel)
ProcessFrame(f) ==
    /\ hist.calls < MaxLearnCalls
    /\ LET r == process(inst, f)
       IN  /\ instances' = <<r.self>>
           /\ ret' = [op |-> "process", img_input |-> f,
                      img_output |-> r.img_output,
                      img_bgmodel |-> r.img_bgmodel, before |-> inst]
    /\ hist' = [hist EXCEPT !.calls = @ + 1,
                            !.last = f,
                            !.same = @ /\ (empty(hist.last) \/ f = hist.last)]
    /\ UNCHANGED <<threads, registry, nStatic, cerr>>

LearningNext ==
    \/ \E f \in {Solid(1, 0), Spots(1), Edge(1)} : ProcessFrame(f)
    \/ /\ hist.cfg < MaxLearnSets
       /\ \E p \in {Caps, LowerCap, BadMiddle} : SetParams(p)

LearningSpec == LearningInit /\ [][LearningNext]_vars

(***************************************************************************)
(* LoopSpec: the capture loop of the demos.  An instance is created,       *)
(* configured at most once, and then handed frame after frame for as long  *)
(* as the program runs; after MaxLoop frames the scene stands still.       *)
(***************************************************************************)
\* ibgs->setParams(p) ahead of the loop, p one of the given sets.
SetUp(sets) ==
    /\ hist.calls = 0 /\ hist.cfg = 0
    /\ \E p \in sets : SetParams(p)

\* One turn of the loop: ibgs->process(f, img_output, img_bgmodel).  The
\* caller keeps the frames of the last three turns, the instance as the
\* call found it, and whether it has captured an odd number of frames.
Capture(f) ==
    /\ empty(hist.last) \/ f.ch = hist.last.ch
    /\ hist.calls < MaxLoop \/ f = hist.last
    /\ LET r     == process(inst, f)
           all   == Append(IF ret.op = "process" THEN ret.frames ELSE <<>>, f)
       IN  /\ instances' = <<r.self>>
           /\ ret' = [op |-> "process", img_input |-> f,
                      img_output |-> r.img_output,
                      img_bgmodel |-> r.img_bgmodel, before |-> inst,
                      frames |-> IF Len(all) > 3 THEN Tail(all) ELSE all,
                      odd |-> ret.op # "process" \/ ~ret.odd]
    /\ hist' = [hist EXCEPT !.calls = Min(@ + 1, MaxLoop),
                            !.last = f,
                            !.same = @ /\ (empty(hist.last) \/ f = hist.last)]
    /\ UNCHANGED <<threads, registry, nStatic, cerr>>

\* The loop, turning on frames of the given set.
Loop(frames) == \E f \in frames : Capture(f)

LoopNext ==
    LET CapAt(txt) == [k \in {"learningFrames", "maxLearningFrames"} |-> txt]
        RateAt(txt) == [k \in {"alpha", "alphaDetection", "alphaLearn"} |-> txt]
    IN  \/ SetUp({CapAt(Txt0), CapAt(Txt1), CapAt(Txt2), CapAt(<<"-", "2">>),
                  RateAt(Txt0), RateAt(Txt1), RateAt(Txt20),
                  Caps, BadMiddle, BadLast, NegativeThreshold})
        \/ Loop(Frames(1) \cup Frames(3))

LoopSpec == Init /\ [][LoopNext]_vars

(***************************************************************************)
(* StillSpec: the same loop in front of a scene that is black or white,    *)
(* with the loop's promise to keep turning: while (true) { cap >> frame;   *)
(* ... process ... }.                                                      *)
(***************************************************************************)
StillNext ==
    \/ SetUp({LowerCap, BadLast, NegativeThreshold})
    \/ Loop({Solid(1, 0), Solid(1, MaxU8)})

StillSpec ==
    /\ Init /\ [][StillNext]_vars
    /\ WF_vars(Loop({Solid(1, 0), Solid(1, MaxU8)}))

(***************************************************************************)
(* TwinSpec: two fresh instances of one strategy.  The caller makes calls  *)
(* on the first and repeats them, in the same order but at any later       *)
(* moment, on the second, and writes down what every call returned.        *)
(***************************************************************************)
TwinInit ==
    /\ registry = BootRegistry(Len(StaticRegistrations))
    /\ nStatic = Len(StaticRegistrations)
    /\ cerr = <<>>
    /\ \E name \in BuiltinNames :
          /\ instances = FactoryCreate(registry, cerr, name).instance
                             \o FactoryCreate(registry, cerr, name).instance
          /\ ret = [op |-> "Create", name |-> name, result |-> "instance",
                    was |-> [registry |-> registry, cerr |-> cerr,
                             instances |-> <<>>]]
    /\ hist = [calls |-> 0, cfg |-> 0, ops |-> 0, last |-> EmptyMat,
               same |-> TRUE, bound |-> <<>>, log |-> <<<<>>, <<>>>>]
    /\ threads = <<>>

\* One call on an instance: the instance after it and what the caller got.
Answer(self, c) ==
    CASE c.op = "process" ->
             LET r == process(self, c.img_input)
             IN  [self |-> r.self, out |-> <<r.img_output, r.img_bgmodel>>]
      [] c.op = "setParams" ->
             LET r == setParams(self, c.params)
             IN  [self |-> r.self, out |-> r.threw]
      [] c.op = "getParams" -> [self |-> self, out |-> getParams(self)]

\* The call c made on instance i and written to its log.
CallAt(i, c) ==
    \E a \in {Answer(instances[i], c)} :
        /\ instances' = [instances EXCEPT ![i] = a.self]
        /\ ret' = [op |-> c.op, at |-> i, call |-> c, out |-> a.out]
        /\ hist' = [hist EXCEPT !.log[i] = Append(@, [call |-> c, out |-> a.out])]
        /\ UNCHANGED <<threads, registry, nStatic, cerr>>

\* Lead with img_background a static member: a process call on the first
\* instance also writes the model of the second.
Lead_static(c) ==
    /\ Len(hist.log[1]) < MaxTwinCalls
    /\ LET a == Answer(instances[1], c)
       IN  /\ instances' = <<a.self,
                             [instances[2] EXCEPT !.img_background =
                                                      a.self.img_background]>>
           /\ ret' = [op |-> c.op, at |-> 1, call |-> c, out |-> a.out]
           /\ hist' = [hist EXCEPT !.log[1] =
                                       Append(@, [call |-> c, out |-> a.out])]
           /\ UNCHANGED <<threads, registry, nStatic, cerr>>

\* A new call on the first instance.
Lead(c) ==
    /\ Len(hist.log[1]) < MaxTwinCalls
    /\ CallAt(1, c)

\* The next call of the first instance's log, repeated on the second.
Follow ==
    /\ Len(hist.log[2]) < Len(hist.log[1])
    /\ CallAt(2, hist.log[1][Len(hist.log[2]) + 1].call)

TwinNext ==
    LET frames == {Solid(1, 0), Solid(1, MaxU8), Spots(1)}
        calls == {[op |-> "process", img_input |-> f] : f \in frames}
                 \cup {[op |-> "setParams", params |-> p] :
                          p \in {Caps, BadMiddle}}
                 \cup {[op |-> "getParams"]}
    IN  \/ \E c \in calls : Lead(c)
        \/ Follow

TwinSpec == TwinInit /\ [][TwinNext]_vars

(***************************************************************************)
(* InteractiveSpec: the camera loop of the interactive example.  Every     *)
(* turn of the loop processes one captured frame with a FrameDifference    *)
(* instance and then handles the key cv::waitKey returned.                 *)
(***************************************************************************)
InteractiveInit ==
    /\ registry = BootRegistry(Len(StaticRegistrations))
    /\ nStatic = Len(StaticRegistrations)
    /\ cerr = <<>>
    /\ instances = FactoryCreate(registry, cerr, "FrameDifference").instance
    /\ ret = [op |-> "Create", name |-> "FrameDifference",
              result |-> "instance",
              was |-> [registry |-> registry, cerr |-> cerr,
                       instances |-> <<>>]]
    /\ hist = [last |-> EmptyMat, held |-> {}]
    /\ threads = <<>>

\* The '+' and '-' branches without std::min and std::max.
Pressed_unclamped(self, key) ==
    LET params == getParams(self)
        t == stoi(params["threshold"])
    IN  IF key \in {"+", "-"} /\ t.err = "none"
        THEN LET r == setParams(self, [k \in {"threshold"} |->
                          to_string_int(IF key = "+" THEN t.val + 1
                                        ELSE t.val - 1)])
             IN  [self |-> r.self, threw |-> r.threw]
        ELSE [self |-> self, threw |-> "none"]

\* The branch of the key: the instance after it and the exception that
\* left main, if one did.  'p' only prints; 'q' and any other key, or no
\* key within the 30 ms, touch nothing.
Pressed(self, key) ==
    LET params == getParams(self)
        enableThreshold == params["enableThreshold"] = StrTrue
        t == stoi(params["threshold"])
        threshold == IF key = "+" THEN Min(t.val + 1, MaxU8)
                     ELSE Max(t.val - 1, 0)
        r == setParams(self,
                 IF key = "t"
                 THEN [k \in {"enableThreshold"} |->
                          IF enableThreshold THEN StrFalse ELSE StrTrue]
                 ELSE [k \in {"threshold"} |-> to_string_int(threshold)])
    IN  IF key \in {"+", "-"} /\ t.err # "none"
        THEN [self |-> self, threw |-> t.err]
        ELSE IF key \in {"t", "+", "-"}
        THEN [self |-> r.self, threw |-> r.threw]
        ELSE [self |-> self, threw |-> "none"]

\* One turn of while (true): cap >> frame, process, imshow, waitKey and
\* the branch of the key.  'q' leaves the loop, an exception leaves main.
Turn(f, key) ==
    /\ ret.op \notin {"quit", "terminate"}
    /\ empty(hist.last) \/ f.ch = hist.last.ch
    /\ \E r \in {process(inst, f)} : \E k \in {Pressed(r.self, key)} :
           /\ instances' = <<k.self>>
           /\ ret' = [op |-> IF k.threw # "none" THEN "terminate"
                             ELSE IF key = "q" THEN "quit" ELSE "key",
                      key |-> key, img_input |-> f,
                      img_output |-> r.img_output, threw |-> k.threw,
                      before |-> [threshold |-> inst.threshold,
                                  enableThreshold |-> inst.enableThreshold]]
           /\ hist' = [last |-> f,
                       held |-> hist.held \cup
                                  IF /\ key \in {"+", "-"}
                                     /\ k.self.threshold = inst.threshold
                                  THEN {key} ELSE {}]
    /\ UNCHANGED <<threads, registry, nStatic, cerr>>

InteractiveNext ==
    \E f \in {Solid(1, 0), Solid(1, MaxU8)} :
        \E key \in {"q", "t", "+", "-", "p", "none"} : Turn(f, key)

InteractiveSpec == InteractiveInit /\ [][InteractiveNext]_vars

(***************************************************************************)
(* Properties.                                                             *)
(***************************************************************************)
IsProcess == ret.op = "process"
IsSetParams == ret.op = "setParams"

\* The calls of an instance that return before the strategy's rule runs
\* (WeightedMovingMean) or that seed the model (the others).
WarmUpCalls(self) == IF self.algorithmName = "WeightedMovingMean" THEN 2 ELSE 1

\* Whether process binarises the mask of this instance.
Thresholds(self) ==
    self.algorithmName = "AdaptiveSelectiveBackgroundLearning"
    \/ self.enableThreshold

\* Whether every blending rate of the instance lies in [0, 1].
RatesInUnit(self) ==
    \A k \in DOMAIN self \cap {"alpha", "alphaLearn", "alphaDetection"} :
        0 <= self[k] /\ self[k] <= DoubleScale

\* C1: every process call, of every strategy and for 1- and 3-channel
\* input, returns a single-channel 8-bit foreground mask and a 3-channel
\* 8-bit background image.
C1_OutputFormat ==
    IsProcess =>
        /\ ret.img_output.depth = "8U" /\ ret.img_output.ch = 1
        /\ ret.img_bgmodel.depth = "8U" /\ ret.img_bgmodel.ch = 3

\* C3 as stated: the first process call of a fresh instance (the first two
\* of WeightedMovingMean) returns an all-zero mask, whatever frame is fed
\* and whatever parameters were set before.
C3_FirstCallMask ==
    (IsProcess /\ hist.calls <= WarmUpCalls(inst))
        => AllSamples(ret.img_output, 0)

\* C3 as amended: the same, for the settings whose threshold is not
\* negative or that do not threshold; FrameDifference and
\* WeightedMovingMean return the zero mask under every setting.
C3_FirstCallMaskNonNegative ==
    (/\ IsProcess /\ hist.calls <= WarmUpCalls(inst)
     /\ \/ inst.algorithmName \in {"FrameDifference", "WeightedMovingMean"}
        \/ ~Thresholds(inst)
        \/ inst.threshold >= 0)
        => AllSamples(ret.img_output, 0)

\* A first call of AdaptiveBackgroundLearning on a frame that is not black,
\* after a parameter set changed its threshold.
C3_Witness ==
    /\ IsProcess /\ hist.calls = 1 /\ hist.cfg = 1
    /\ inst.algorithmName = "AdaptiveBackgroundLearning"
    /\ inst.enableThreshold /\ inst.threshold = 0
    /\ ~AllSamples(ret.img_input, 0)
    /\ AllSamples(ret.img_output, 0)

\* C4 as stated: when every process call of an instance is fed the same
\* frame, every call after warm-up returns an all-zero mask, under every
\* parameter configuration.
C4_StaticScene ==
    (IsProcess /\ hist.same /\ hist.calls > WarmUpCalls(inst))
        => AllSamples(ret.img_output, 0)

\* C4 as amended: the same, for the configurations whose threshold is not
\* negative (or that do not threshold) and whose blending rates lie in
\* [0, 1].
C4_StaticSceneNonNegative ==
    (/\ IsProcess /\ hist.same /\ hist.calls > WarmUpCalls(inst)
     /\ ~Thresholds(inst) \/ inst.threshold >= 0
     /\ RatesInUnit(inst))
        => AllSamples(ret.img_output, 0)

\* The third call of a WeightedMovingMean that was fed the same frame, not
\* a black one, three times and does not threshold.
C4_Witness ==
    /\ IsProcess /\ hist.same /\ hist.calls = 3
    /\ inst.algorithmName = "WeightedMovingMean"
    /\ ~inst.enableThreshold
    /\ ~AllSamples(ret.img_input, 0) /\ ~AllSamples(ret.img_input, MaxU8)
    /\ AllSamples(ret.img_output, 0)

(***************************************************************************)
(* Properties of the configuration interface.                              *)
(***************************************************************************)
IntKeys == {"threshold", "maxLearningFrames", "learningFrames"}
DoubleKeys == {"alpha", "alphaLearn", "alphaDetection"}
BoolKeys == {"enableThreshold", "enableWeight"}

\* The parameter names each strategy documents.
RecognisedKeys(self) ==
    CASE self.algorithmName = "FrameDifference" ->
             {"enableThreshold", "threshold"}
      [] self.algorithmName = "AdaptiveBackgroundLearning" ->
             {"alpha", "maxLearningFrames", "enableThreshold", "threshold"}
      [] self.algorithmName = "AdaptiveSelectiveBackgroundLearning" ->
             {"alphaLearn", "alphaDetection", "learningFrames", "threshold"}
      [] self.algorithmName = "WeightedMovingMean" ->
             {"enableWeight", "enableThreshold", "threshold"}

KeyIndex(k) == CHOOSE i \in 1..Len(KeyOrder) : KeyOrder[i] = k

\* A text that begins, after blanks and signs, with a digit or a fraction.
NumberText(t) ==
    \E i \in 1..Len(t) :
        /\ IsDigit(t[i])
        /\ \A j \in 1..(i - 1) : t[j] \in {" ", "+", "-", "."}

\* The standard decimal text of an int: digits without a leading zero, a
\* minus sign before them for a negative value.
DecimalText(t) ==
    LET body == IF t # <<>> /\ t[1] = "-" THEN Tail(t) ELSE t
    IN  /\ body # <<>> /\ Len(body) <= 9
        /\ \A i \in 1..Len(body) : IsDigit(body[i])
        /\ Len(body) > 1 => body[1] # "0"
        /\ ~(body = <<"0">> /\ Len(t) > 1)

\* The recognised numeric keys of params whose text spells no number.
BadKeys(self, params) ==
    {k \in DOMAIN params \cap RecognisedKeys(self) \cap (IntKeys \cup DoubleKeys) :
        ~NumberText(params[k])}

FirstBadKey(self, params) ==
    CHOOSE k \in BadKeys(self, params) :
        \A j \in BadKeys(self, params) : KeyIndex(k) <= KeyIndex(j)

\* The value key k takes when the text v is applied to it.
Parsed(self, k, v) == setParam(self, k, v).self[k]

\* C2 as stated: a setParams call with an unparsable numeric key throws,
\* keeps the prior value of the failing key and applies every other valid
\* key of the call, wherever the failing key stands among the keys.
C2_Isolation ==
    (IsSetParams /\ BadKeys(ret.before, ret.params) # {}) =>
        /\ ret.threw # "none"
        /\ \A k \in DOMAIN ret.params \cap RecognisedKeys(inst) :
              inst[k] = IF k \in BadKeys(ret.before, ret.params)
                        THEN ret.before[k]
                        ELSE Parsed(ret.before, k, ret.params[k])

\* C2 as amended: such a call throws; the valid keys that precede the first
\* failing key in key order are applied, the failing key and the keys
\* after it keep their prior values.
C2_IsolationInKeyOrder ==
    (IsSetParams /\ BadKeys(ret.before, ret.params) # {}) =>
        /\ ret.threw # "none"
        /\ \A k \in DOMAIN ret.params \cap RecognisedKeys(inst) :
              inst[k] = IF KeyIndex(k) < KeyIndex(FirstBadKey(ret.before, ret.params))
                        THEN Parsed(ret.before, k, ret.params[k])
                        ELSE ret.before[k]

\* AdaptiveBackgroundLearning after a call whose maxLearningFrames is
\* unparsable: alpha, before it, is applied; threshold, after it, is not.
C2_Witness ==
    /\ IsSetParams /\ ret.params = BadMiddle
    /\ inst.algorithmName = "AdaptiveBackgroundLearning"
    /\ ret.threw = "invalid_argument"
    /\ inst.alpha = 5000000 /\ ret.before.alpha = DefaultAlpha
    /\ inst.threshold = ret.before.threshold /\ inst.threshold # 20

\* C8 as stated: setParams(getParams()) leaves getParams() unchanged and
\* leaves every parameter value the next process call uses unchanged.
C8_RoundTrip ==
    (IsSetParams /\ ret.roundTrip) =>
        /\ getParams(inst) = getParams(ret.before)
        /\ \A k \in RecognisedKeys(inst) : inst[k] = ret.before[k]

\* C8 as amended: setParams(getParams()) ends normally and leaves
\* getParams() and the int and bool parameters unchanged; a double
\* parameter moves to its value rounded to the six decimals printed.
C8_RoundTripText ==
    (IsSetParams /\ ret.roundTrip) =>
        /\ ret.threw = "none"
        /\ getParams(inst) = getParams(ret.before)
        /\ \A k \in RecognisedKeys(inst) \ DoubleKeys : inst[k] = ret.before[k]
        /\ \A k \in RecognisedKeys(inst) \cap DoubleKeys :
              2 * Abs(inst[k] - ret.before[k]) <= Pow10(FracPlaces - PrintPlaces)

\* A round trip of an instance whose blending rate has a seventh decimal:
\* the text read back is the same, the rate is not.
C8_Witness ==
    /\ IsSetParams /\ ret.roundTrip
    /\ inst.algorithmName = "AdaptiveBackgroundLearning"
    /\ ret.before.alpha = 3 /\ inst.alpha = 0
    /\ getParams(inst) = getParams(ret.before)

\* C9: after setParams has assigned an int key its standard decimal text,
\* or a bool key "true" or "false", getParams returns that text for the key.
C9_SetThenGet ==
    IsSetParams =>
        \A k \in ret.visited \cap RecognisedKeys(inst) :
            /\ (k \in IntKeys /\ DecimalText(ret.params[k]))
                  => getParams(inst)[k] = ret.params[k]
            /\ (k \in BoolKeys /\ ret.params[k] \in {StrTrue, StrFalse})
                  => getParams(inst)[k] = ret.params[k]

\* "threshold" := "20" and "enableThreshold" := "false" after a frame was
\* processed and an earlier parameter set applied.
C9_Witness ==
    /\ IsSetParams /\ ret.params = BadMiddle /\ hist.calls > 0 /\ hist.cfg > 1
    /\ {"threshold", "enableThreshold"} \subseteq ret.visited \cap RecognisedKeys(inst)
    /\ getParams(inst)["threshold"] = Txt20
    /\ getParams(inst)["enableThreshold"] = StrFalse
    /\ ret.before.threshold # 20

\* C10: setParams leaves every recognised key absent from its argument as
\* it was; keys the strategy does not recognise raise no error; and when no
\* recognised key is unparsable the call ends normally with every
\* recognised key present set to the value of its text.
C10_PartialUpdate ==
    IsSetParams =>
        /\ \A k \in RecognisedKeys(inst) \ DOMAIN ret.params :
              inst[k] = ret.before[k]
        /\ BadKeys(ret.before, ret.params) = {} =>
              /\ ret.threw = "none"
              /\ \A k \in RecognisedKeys(inst) \cap DOMAIN ret.params :
                    inst[k] = Parsed(ret.before, k, ret.params[k])

\* FrameDifference with thresholding switched off by an earlier call, then
\* a call with threshold := "20" among keys it does not recognise.
C10_Witness ==
    /\ IsSetParams /\ ret.params = BadFirst
    /\ inst.algorithmName = "FrameDifference"
    /\ ret.threw = "none"
    /\ inst.threshold = 20 /\ ret.before.threshold = DefaultThreshold
    /\ ~ret.before.enableThreshold /\ ~inst.enableThreshold

(***************************************************************************)
(* Properties of the registry.                                             *)
(***************************************************************************)
IsCreate == ret.op = "Create"
IsRegister == ret.op = "RegisterFactoryFunction"
StrategyNames ==
    {"FrameDifference", "AdaptiveBackgroundLearning",
     "AdaptiveSelectiveBackgroundLearning", "WeightedMovingMean"}
AtMainEntry == nStatic = Len(StaticRegistrations) /\ hist.ops = 0

\* C5 as stated: Create of an unregistered name returns null, lets no
\* exception escape and leaves the table as it was; Create of a registered
\* name returns an instance or null and lets no exception escape.
C5_CreateNeverThrows ==
    (IsCreate /\ hist.ops > 0) =>
        /\ ret.result # "exception"
        /\ ret.name \notin DOMAIN ret.was.registry =>
              /\ ret.result = "nullptr"
              /\ registry = ret.was.registry
              /\ instances = ret.was.instances
        /\ ret.name \in DOMAIN ret.was.registry =>
              ret.result \in {"instance", "nullptr"}

\* C6: when main is entered the table binds each of the four strategy
\* names to the constructor of that strategy, the listing contains the four
\* names, and Create(n) yields an instance whose algorithm name is n.
C6_Bootstrap ==
    /\ AtMainEntry =>
          \A n \in StrategyNames :
              /\ n \in DOMAIN registry /\ registry[n] = n
              /\ n \in GetRegisteredAlgorithmsName(registry)
              /\ FactoryCreate(registry, cerr, n).result = "instance"
              /\ FactoryCreate(registry, cerr, n).instance[1].algorithmName = n
    /\ (hist.ops = 1 /\ IsCreate /\ ret.name \in StrategyNames) =>
          /\ ret.result = "instance"
          /\ instances[Len(instances)].algorithmName = ret.name
    /\ (hist.ops = 1 /\ ret.op = "GetRegisteredAlgorithmsName") =>
          StrategyNames \subseteq ret.names

\* The first call of main is Create("WeightedMovingMean").
C6_Witness ==
    /\ hist.ops = 1 /\ IsCreate /\ ret.name = "WeightedMovingMean"
    /\ ret.result = "instance" /\ Len(instances) = 1
    /\ instances[1].algorithmName = "WeightedMovingMean"
    /\ instances[1].enableWeight

\* C7: registering a bound name returns true, writes one warning, leaves
\* the set of names, the other bindings and the instances alive as they
\* were and binds the name to the new function; a later Create of a name
\* calls the function registered for it last.
C7_ReRegistration ==
    /\ (IsRegister /\ ret.name \in DOMAIN ret.was.registry) =>
          /\ ret.result = TRUE
          /\ Len(cerr) = Len(ret.was.cerr) + 1
          /\ cerr[Len(cerr)] = <<"Warning: Overwriting", ret.name>>
          /\ DOMAIN registry = DOMAIN ret.was.registry
          /\ \A n \in DOMAIN registry \ {ret.name} :
                registry[n] = ret.was.registry[n]
          /\ registry[ret.name] = ret.fn
          /\ instances = ret.was.instances
    /\ (IsCreate /\ hist.ops > 0 /\ ret.name \in DOMAIN hist.bound) =>
          LET c2 == hist.bound[ret.name]
          IN  /\ SubSeq(instances, 1, Len(ret.was.instances)) = ret.was.instances
              /\ c2 \in StrategyNames =>
                    /\ ret.result = "instance"
                    /\ Len(instances) = Len(ret.was.instances) + 1
                    /\ instances[Len(instances)].algorithmName = c2
              /\ c2 \notin StrategyNames =>
                    /\ ret.result # "instance"
                    /\ instances = ret.was.instances

\* Create("FrameDifference"), then "FrameDifference" re-registered with the
\* constructor of WeightedMovingMean, then Create("FrameDifference") again.
C7_Witness ==
    /\ IsCreate /\ ret.name = "FrameDifference" /\ hist.ops = 3
    /\ "FrameDifference" \in DOMAIN hist.bound
    /\ hist.bound["FrameDifference"] = "WeightedMovingMean"
    /\ Len(instances) = 2
    /\ instances[1].algorithmName = "FrameDifference"
    /\ instances[2].algorithmName = "WeightedMovingMean"
    /\ Len(cerr) = 1

\* Whether setParams does anything with key k on this instance: some text
\* changes the instance or makes the conversion throw.
Reacts(self, k) ==
    \E v \in {TxtAbc, StrTrue, StrFalse} : setParam(self, k, v) # Assigned(self)

\* C11: in every reachable state getParams returns a map whose keys are
\* exactly the parameter names of the strategy: the documented names, which
\* are the names setParams reacts to.
C11_GetParamsComplete ==
    /\ DOMAIN getParams(inst) = RecognisedKeys(inst)
    /\ \A k \in KeysOf(KeyOrder) : Reacts(inst, k) <=> k \in DOMAIN getParams(inst)
    /\ ret.op = "getParams" => DOMAIN ret.params = RecognisedKeys(inst)

\* getParams of an AdaptiveBackgroundLearning that has processed a frame
\* and whose last setParams ended in an exception.
C11_Witness ==
    /\ ret.op = "getParams" /\ hist.calls > 0 /\ hist.cfg = 2
    /\ inst.algorithmName = "AdaptiveBackgroundLearning"
    /\ inst.alpha = 5000000 /\ inst.threshold = DefaultThreshold
    /\ DOMAIN ret.params =
          {"alpha", "maxLearningFrames", "enableThreshold", "threshold"}

\* C12: setParams never fails on a boolean key; it sets the flag to true
\* when the text is "true" and to false for every other text, and getParams
\* then reports "true" or "false" accordingly.
C12_BooleanDecoding ==
    IsSetParams =>
        \A k \in DOMAIN ret.params \cap RecognisedKeys(inst) \cap BoolKeys :
            /\ \/ k \in ret.visited
               \/ \E j \in BadKeys(ret.before, ret.params) : KeyIndex(j) < KeyIndex(k)
            /\ k \in ret.visited =>
                  /\ inst[k] = (ret.params[k] = StrTrue)
                  /\ getParams(inst)[k] =
                        IF ret.params[k] = StrTrue THEN StrTrue ELSE StrFalse

\* WeightedMovingMean with both flags on, then enableThreshold := "True"
\* and enableWeight := "1": both flags are off afterwards.
C12_Witness ==
    /\ IsSetParams /\ ret.params = FlagsCapital /\ ret.threw = "none"
    /\ inst.algorithmName = "WeightedMovingMean"
    /\ ret.before.enableThreshold /\ ret.before.enableWeight
    /\ ~inst.enableThreshold /\ ~inst.enableWeight
    /\ getParams(inst)["enableWeight"] = StrFalse

\* C13: a process call on an empty frame ends the program; it never
\* returns, never hands the error to the caller and never changes the
\* instance.
C13_EmptyInputFatal ==
    ret.op = "process_empty" =>
        /\ ret.outcome = "abort"
        /\ instances = ret.was.instances

\* The pixels a mask marks as foreground.
Foreground(m) == {k \in 1..NPix : m.px[k][1] # 0}

\* C14: two FrameDifference instances that threshold, hold the same
\* previous frame and are given the same frame: the one with the higher
\* threshold marks a subset of the pixels the other marks.
C14_ThresholdMonotone ==
    ret.op = "processBoth" =>
        \A i \in {1, 2}, j \in {1, 2} :
            (/\ instances[i].enableThreshold /\ instances[j].enableThreshold
             /\ instances[i].threshold <= instances[j].threshold)
                => Foreground(ret.img_output[j]) \subseteq Foreground(ret.img_output[i])

\* Thresholds 2 and 20 on a frame with dim and bright differences: the
\* higher threshold keeps some of the pixels and drops others.
C14_Witness ==
    /\ ret.op = "processBoth" /\ hist.calls = 2
    /\ instances[1].threshold = 2 /\ instances[2].threshold = 20
    /\ Foreground(ret.img_output[2]) # {}
    /\ Foreground(ret.img_output[2]) # Foreground(ret.img_output[1])
    /\ Foreground(ret.img_output[2]) \subseteq Foreground(ret.img_output[1])

\* C15: whenever the instance thresholds, every sample of the mask that
\* process returns is 0 or 255, on warm-up calls too.
C15_BinaryMask ==
    (IsProcess /\ Thresholds(inst)) =>
        /\ ret.img_output.ch = 1
        /\ \A k \in 1..NPix : ret.img_output.px[k][1] \in {0, MaxU8}

\* A mask of AdaptiveBackgroundLearning with marked and unmarked pixels,
\* over a frame whose differences lie strictly between 0 and 255.
C15_Witness ==
    /\ IsProcess /\ inst.algorithmName = "AdaptiveBackgroundLearning"
    /\ inst.enableThreshold /\ hist.calls > 1
    /\ \E k \in 1..NPix : ret.img_output.px[k][1] = MaxU8
    /\ \E k \in 1..NPix : ret.img_output.px[k][1] = 0
    /\ \E k \in 1..NPix : ret.img_input.px[k][1] \notin {0, MaxU8}

(***************************************************************************)
(* Properties of instances.                                                *)
(***************************************************************************)
TxtDefaultAlpha == <<"0", ".", "0", "5", "0", "0", "0", "0">>
TxtDefaultThreshold == <<"1", "5">>

\* The parameter values a new instance of each class is documented to have.
DefaultParams(name) ==
    CASE name = "FrameDifference" ->
             [k \in {"enableThreshold", "threshold"} |->
                 IF k = "threshold" THEN TxtDefaultThreshold ELSE StrTrue]
      [] name = "AdaptiveBackgroundLearning" ->
             [k \in {"alpha", "maxLearningFrames", "enableThreshold", "threshold"} |->
                 CASE k = "alpha" -> TxtDefaultAlpha
                   [] k = "maxLearningFrames" -> TxtMinus1
                   [] k = "threshold" -> TxtDefaultThreshold
                   [] OTHER -> StrTrue]
      [] name = "AdaptiveSelectiveBackgroundLearning" ->
             [k \in {"alphaLearn", "alphaDetection", "threshold"} |->
                 IF k = "threshold" THEN TxtDefaultThreshold ELSE TxtDefaultAlpha]
      [] name = "WeightedMovingMean" ->
             [k \in {"enableWeight", "enableThreshold", "threshold"} |->
                 IF k = "threshold" THEN TxtDefaultThreshold ELSE StrTrue]

\* No background model, no frame history, counters at zero.
Blank(self) ==
    /\ empty(self.img_background) /\ empty(self.img_foreground)
    /\ self.firstTime
    /\ \A c \in DOMAIN self \cap {"currentLearningFrame", "counter"} : self[c] = 0
    /\ \A h \in DOMAIN self \cap {"img_input_prev_1", "img_input_prev_2"} :
          empty(self[h])

ReportsDefaults(self) ==
    \A k \in DOMAIN DefaultParams(self.algorithmName) :
        /\ k \in DOMAIN getParams(self)
        /\ getParams(self)[k] = DefaultParams(self.algorithmName)[k]

\* C16: Create adds one instance, blank and with the default parameters,
\* whatever was done to the instances created before, and leaves those as
\* they were; a process or setParams call on one instance leaves every
\* other instance, and so what it will return, as it was.
C16_InstanceIsolation ==
    /\ (IsCreate /\ hist.ops > 0 /\ ret.result = "instance") =>
          /\ Len(instances) = Len(ret.was.instances) + 1
          /\ SubSeq(instances, 1, Len(ret.was.instances)) = ret.was.instances
          /\ instances[Len(instances)].algorithmName = ret.name
          /\ Blank(instances[Len(instances)])
          /\ ReportsDefaults(instances[Len(instances)])
    /\ ret.op \in {"processAt", "setParamsAt"} =>
          /\ DOMAIN instances = DOMAIN ret.was.instances
          /\ \A j \in DOMAIN instances \ {ret.at} :
                /\ instances[j] = ret.was.instances[j]
                /\ \A f \in InstanceFrames :
                      process(instances[j], f) = process(ret.was.instances[j], f)

\* A second AdaptiveBackgroundLearning created after the first was
\* reconfigured and fed a frame.
C16_Witness ==
    /\ IsCreate /\ ret.name = "AdaptiveBackgroundLearning" /\ Len(instances) = 2
    /\ instances[1].algorithmName = "AdaptiveBackgroundLearning"
    /\ ~empty(instances[1].img_background)
    /\ instances[1].currentLearningFrame = 1
    /\ instances[1].threshold = 0
    /\ Blank(instances[2]) /\ instances[2].threshold = DefaultThreshold

(***************************************************************************)
(* Properties of concurrent callers.                                       *)
(***************************************************************************)
\* The table static registration leaves, name by name.
BootstrappedTable == [n \in StrategyNames |-> n]

Finished(t) == threads # <<>> /\ threads[t].pc = "returned"

\* C17: while threads run Create and GetRegisteredAlgorithmsName at once,
\* the table stays the one registration left, and every call that has
\* returned has the result the same call has when it runs alone: an
\* instance of the class for a registered name, nullptr for any other name,
\* the registered names in key order for a listing.
C17_ConcurrentCreate ==
    threads # <<>> =>
        /\ registry = BootstrappedTable
        /\ \A t \in DOMAIN threads :
              /\ (Finished(t) /\ threads[t].op = "Create") =>
                    /\ threads[t].result = FactoryCreate(BootstrappedTable, <<>>,
                                                         threads[t].name).result
                    /\ threads[t].instance = FactoryCreate(BootstrappedTable, <<>>,
                                                           threads[t].name).instance
                    /\ threads[t].name \in StrategyNames =>
                          /\ threads[t].result = "instance"
                          /\ threads[t].instance[1].algorithmName = threads[t].name
                    /\ threads[t].name \notin StrategyNames =>
                          threads[t].result = "nullptr"
              /\ (Finished(t) /\ threads[t].op = "GetRegisteredAlgorithmsName") =>
                    threads[t].algorithmsName =
                        <<"AdaptiveBackgroundLearning",
                          "AdaptiveSelectiveBackgroundLearning",
                          "FrameDifference", "WeightedMovingMean">>

\* Both threads have returned: one has listed the four names, the other
\* has created a FrameDifference.
C17_Witness ==
    /\ threads # <<>>
    /\ Finished(1) /\ threads[1].op = "GetRegisteredAlgorithmsName"
    /\ Len(threads[1].algorithmsName) = 4
    /\ Finished(2) /\ threads[2].op = "Create"
    /\ threads[2].name = "FrameDifference" /\ threads[2].result = "instance"

\* The instance the last Create call returned.
Created == instances[Len(instances)]

\* C18: the instance Create returns has no background model, no frame
\* history and a zero learning counter, and its getParams reports the
\* documented defaults of its class, as texts that read back as 15, 0.05,
\* -1 and true.
C18_InitialState ==
    (IsCreate /\ hist.ops > 0 /\ ret.result = "instance") =>
        /\ Blank(Created)
        /\ LET params   == getParams(Created)
               defaults == DefaultParams(Created.algorithmName)
           IN  /\ DOMAIN defaults \subseteq DOMAIN params
               /\ \A k \in DOMAIN defaults :
                     /\ params[k] = defaults[k]
                     /\ k = "threshold" => stoi(params[k]).val = 15
                     /\ k = "maxLearningFrames" => stoi(params[k]).val = -1
                     /\ k \in DoubleKeys => 20 * stod(params[k]).val = DoubleScale
                     /\ k \in BoolKeys => parse_bool(params[k])

\* Create("AdaptiveBackgroundLearning") as the third call of main, after
\* two other instances were created.
C18_Witness ==
    /\ IsCreate /\ hist.ops = 3 /\ ret.result = "instance"
    /\ Len(instances) = 3
    /\ Created.algorithmName = "AdaptiveBackgroundLearning"
    /\ Created.alpha = DefaultAlpha /\ Created.maxLearningFrames = -1
    /\ getParams(Created)["alpha"] = TxtDefaultAlpha

(***************************************************************************)
(* Properties of the learning strategies.                                  *)
(***************************************************************************)
IsABL == inst.algorithmName = "AdaptiveBackgroundLearning"
IsASBL == inst.algorithmName = "AdaptiveSelectiveBackgroundLearning"

\* C19 as stated: whatever process and setParams calls were made, the
\* learning-frame counter of AdaptiveBackgroundLearning does not exceed the
\* cap maxLearningFrames in effect (a cap being a positive value).
C19_CounterBound ==
    (IsABL /\ inst.maxLearningFrames > 0) =>
        inst.currentLearningFrame <= inst.maxLearningFrames

\* C19 as amended: process advances the counter by one exactly while the
\* cap is positive and the counter below it, so a counter within the cap
\* stays within it; at or above the cap the model is left alone; setParams
\* never changes the counter.
C19_CounterStep ==
    IsABL =>
        /\ IsProcess =>
              LET b      == ret.before
                  capped == b.maxLearningFrames > 0
                            /\ b.currentLearningFrame < b.maxLearningFrames
              IN  /\ inst.currentLearningFrame =
                        IF capped THEN b.currentLearningFrame + 1
                        ELSE b.currentLearningFrame
                  /\ (b.maxLearningFrames > 0
                      /\ b.currentLearningFrame <= b.maxLearningFrames)
                        => inst.currentLearningFrame <= inst.maxLearningFrames
                  /\ (b.maxLearningFrames > 0
                      /\ b.currentLearningFrame >= b.maxLearningFrames
                      /\ ~empty(b.img_background))
                        => inst.img_background = b.img_background
        /\ IsSetParams =>
              inst.currentLearningFrame = ret.before.currentLearningFrame

\* A process call that finds the counter at the cap of one frame and
\* leaves it there.
C19_Witness ==
    /\ IsABL /\ IsProcess /\ hist.calls = 2
    /\ inst.maxLearningFrames = 1
    /\ ret.before.currentLearningFrame = 1
    /\ inst.currentLearningFrame = 1

\* Whether the call took the selective branch.
Selective(b) == ~(b.learningFrames > 0 /\ b.counter <= b.learningFrames)

\* The 8-bit model a call starts from: the stored one, or on the first
\* call the grey input that seeds it.
ModelBefore(b, img_input) ==
    IF empty(b.img_background) THEN GrayIfColor(img_input) ELSE b.img_background

\* C20: on a process call of AdaptiveSelectiveBackgroundLearning that takes
\* the selective branch, the stored background is unchanged at every pixel
\* the returned mask marks; only pixels with mask 0 may change.
C20_SelectiveFrozen ==
    (IsASBL /\ IsProcess /\ Selective(ret.before)) =>
        \A k \in 1..NPix :
            ret.img_output.px[k][1] # 0 =>
                inst.img_background.px[k] =
                    ModelBefore(ret.before, ret.img_input).px[k]

\* A selective call whose mask marks the first pixel and not the second:
\* the model keeps its value at the first and moves at the second.
C20_Witness ==
    /\ IsASBL /\ IsProcess /\ Selective(ret.before) /\ hist.calls = 2
    /\ ret.img_output.px[1][1] = MaxU8 /\ ret.img_output.px[2][1] = 0
    /\ inst.img_background.px[1] = ret.before.img_background.px[1]
    /\ inst.img_background.px[2] # ret.before.img_background.px[2]

(***************************************************************************)
(* Properties of the capture loop.                                         *)
(***************************************************************************)
\* C21: a process call of AdaptiveSelectiveBackgroundLearning blends every
\* pixel at rate alphaLearn and advances the counter exactly when
\* learningFrames > 0 and counter <= learningFrames as the call finds them;
\* otherwise it blends at rate alphaDetection where the mask is 0, keeps
\* the other pixels and the counter.  With learningFrames fixed, a call
\* that is selective is followed by selective calls only.
C21_PhaseSchedule ==
    (IsASBL /\ IsProcess) =>
        LET b   == ret.before
            in  == GrayIfColor(ret.img_input)
            bg0 == ModelBefore(b, ret.img_input)
        IN  /\ inst.learningFrames = b.learningFrames
            /\ b.learningFrames <= 0 => Selective(b)
            /\ ~Selective(b) =>
                  /\ inst.counter = b.counter + 1
                  /\ \A k \in 1..NPix :
                        inst.img_background.px[k][1] =
                            BlendSample(b.alphaLearn, in.px[k][1], bg0.px[k][1])
            /\ Selective(b) =>
                  /\ inst.counter = b.counter
                  /\ Selective(inst)
                  /\ \A k \in 1..NPix :
                        inst.img_background.px[k][1] =
                            IF ret.img_output.px[k][1] = 0
                            THEN BlendSample(b.alphaDetection, in.px[k][1],
                                             bg0.px[k][1])
                            ELSE bg0.px[k][1]

\* learningFrames = 1: two unconditional calls moved the model, the third
\* call is the first selective one.
C21_Witness ==
    /\ IsASBL /\ IsProcess /\ hist.calls = 3
    /\ inst.learningFrames = 1
    /\ ret.before.counter = 2 /\ inst.counter = 2
    /\ Selective(ret.before)
    /\ ret.frames[1] # ret.frames[2]

\* C22: a process call of AdaptiveBackgroundLearning blends the input into
\* the background exactly when maxLearningFrames is -1 or the counter is
\* below a positive maxLearningFrames as the call finds them, and leaves
\* the background as it was otherwise.  With maxLearningFrames fixed at
\* N > 0 the calls that blend are the first N; with 0 or a value below -1
\* the background is the first frame after every call.
C22_LearningGate ==
    (IsABL /\ IsProcess) =>
        LET b     == ret.before
            N     == b.maxLearningFrames
            bg0   == IF empty(b.img_background) THEN ret.img_input
                     ELSE b.img_background
            learn == N = -1 \/ (N > 0 /\ b.currentLearningFrame < N)
        IN  /\ inst.img_background =
                  IF learn THEN Blend(b.alpha, ret.img_input, bg0) ELSE bg0
            /\ ret.img_bgmodel = inst.img_background
            /\ (N > 0 /\ hist.calls < MaxLoop) => (learn <=> hist.calls <= N)
            /\ (N > 0 /\ hist.calls = MaxLoop /\ N < MaxLoop) =>
                  (~learn /\ inst.img_background = b.img_background)
            /\ ((N = 0 \/ N < -1) /\ hist.calls < MaxLoop /\ hist.calls <= 3) =>
                  inst.img_background = ret.frames[1]

\* maxLearningFrames = 2: the second call moved the background away from
\* the first frame, the third call leaves it where it was although the
\* input differs from it.
C22_Witness ==
    /\ IsABL /\ IsProcess /\ hist.calls = 3
    /\ inst.maxLearningFrames = 2 /\ ret.before.currentLearningFrame = 2
    /\ ret.before.img_background # ret.frames[1]
    /\ inst.img_background = ret.before.img_background
    /\ ret.img_input # inst.img_background

\* C23: the mask a process call of AdaptiveBackgroundLearning returns is
\* made from the difference between the input and the background as the
\* call found it (the input itself on the first call), whether or not the
\* call went on to blend; the background it returns is the one it leaves
\* behind.
C23_DiffBeforeUpdate ==
    (IsABL /\ IsProcess) =>
        LET b    == ret.before
            bg0  == IF empty(b.img_background) THEN ret.img_input
                    ELSE b.img_background
            gray == GrayIfColor(absdiff(ret.img_input, bg0))
        IN  /\ \A k \in 1..NPix :
                  ret.img_output.px[k][1] =
                      IF b.enableThreshold
                      THEN (IF gray.px[k][1] > b.threshold THEN MaxU8 ELSE 0)
                      ELSE gray.px[k][1]
            /\ ret.img_bgmodel = inst.img_background

\* A call that blended at rate 0.5 without thresholding: the mask is the
\* difference to the old background, not to the new one.
C23_Witness ==
    /\ IsABL /\ IsProcess /\ hist.calls = 2
    /\ ~inst.enableThreshold
    /\ inst.img_background # ret.before.img_background
    /\ ret.img_output =
          GrayIfColor(absdiff(ret.img_input, ret.before.img_background))
    /\ ret.img_output #
          GrayIfColor(absdiff(ret.img_input, inst.img_background))

IsFD == inst.algorithmName = "FrameDifference"
IsWMM == inst.algorithmName = "WeightedMovingMean"

\* The input of the call made last, and of the calls before it.
Frame(back) == ret.frames[Len(ret.frames) - back]

\* C24: from its second call on, FrameDifference returns the absolute
\* difference of the previous frame and this one, reduced to grey when the
\* frames have three channels, as 255 where it is above threshold and 0
\* elsewhere when thresholding is on; after every call its model is the
\* frame just fed.
C24_FrameDifferenceRule ==
    (IsFD /\ IsProcess) =>
        /\ inst.img_background = Frame(0)
        /\ Len(ret.frames) >= 2 =>
              \A k \in 1..NPix :
                  LET d == IF Frame(0).ch = 3
                           THEN cvtColorBGR2GRAY(absdiff(Frame(1), Frame(0))).px[k][1]
                           ELSE Abs(Frame(1).px[k][1] - Frame(0).px[k][1])
                  IN  ret.img_output.px[k][1] =
                          IF inst.enableThreshold
                          THEN (IF d > inst.threshold THEN MaxU8 ELSE 0)
                          ELSE d

\* The scenario of the rule: a black frame, then a white one, threshold 15,
\* and the mask is all 255.
C24_Witness ==
    /\ IsFD /\ IsProcess /\ hist.calls = 2
    /\ inst.enableThreshold /\ inst.threshold = DefaultThreshold
    /\ AllSamples(Frame(1), 0) /\ AllSamples(Frame(0), MaxU8)
    /\ AllSamples(ret.img_output, MaxU8)

\* C25: after every process call of WeightedMovingMean previous-1 is the
\* frame just fed and previous-2 the frame fed before it (empty after the
\* first call), whatever the flags, the threshold and the background
\* computed in between.
C25_FrameHistory ==
    (IsWMM /\ IsProcess) =>
        /\ inst.img_input_prev_1 = Frame(0)
        /\ inst.img_input_prev_2 =
              IF Len(ret.frames) >= 2 THEN Frame(1) ELSE EmptyMat

\* A third call, with the plain mean and three frames that differ: the
\* history holds the last two and not the mean.
C25_Witness ==
    /\ IsWMM /\ IsProcess /\ hist.calls = 3
    /\ ~inst.enableWeight
    /\ Frame(0) # Frame(1) /\ Frame(1) # Frame(2) /\ Frame(0) # Frame(2)
    /\ inst.img_input_prev_1 = Frame(0) /\ inst.img_input_prev_2 = Frame(1)
    /\ inst.img_background \notin {Frame(0), Frame(1), Frame(2)}

\* C26: from its third call on, WeightedMovingMean returns as background
\* 0.5 frame(n) + 0.3 frame(n-1) + 0.2 frame(n-2) when enableWeight is set
\* and the mean of the three frames otherwise, each sample rounded to the
\* nearest 8-bit value, and makes the mask from |frame(n) - background|
\* with the threshold; on calls 1 and 2 it computes no background and
\* returns zeros.
C26_MovingMeanRule ==
    (IsWMM /\ IsProcess) =>
        IF Len(ret.frames) < 3
        THEN /\ empty(inst.img_background)
             /\ AllSamples(ret.img_output, 0) /\ AllSamples(ret.img_bgmodel, 0)
        ELSE /\ ret.img_bgmodel = inst.img_background
             /\ \A k \in 1..NPix : \A c \in 1..Frame(0).ch :
                   LET bg == ret.img_bgmodel.px[k][c]
                       f0 == Frame(0).px[k][c]
                       f1 == Frame(1).px[k][c]
                       f2 == Frame(2).px[k][c]
                   IN  IF inst.enableWeight
                       THEN Abs(10 * bg - (5 * f0 + 3 * f1 + 2 * f2)) <= 5
                       ELSE Abs(3 * bg - (f0 + f1 + f2)) <= 1
             /\ \A k \in 1..NPix :
                   LET d == GrayIfColor(absdiff(Frame(0), ret.img_bgmodel)).px[k][1]
                   IN  ret.img_output.px[k][1] =
                           IF inst.enableThreshold
                           THEN (IF d > inst.threshold THEN MaxU8 ELSE 0)
                           ELSE d

\* A third call with the default weights on three frames that differ,
\* whose mask has pixels of both kinds.
C26_Witness ==
    /\ IsWMM /\ IsProcess /\ hist.calls = 3
    /\ inst.enableWeight /\ inst.enableThreshold
    /\ Frame(0) # Frame(1) /\ Frame(1) # Frame(2) /\ Frame(0) # Frame(2)
    /\ ~AllSamples(ret.img_output, 0) /\ ~AllSamples(ret.img_output, MaxU8)

\* C27 as stated: for every strategy and whatever was fed before, once the
\* input stays the same frame the mask becomes all zero and stays so.
C27_NoPermanentForeground ==
    <>[](IsProcess /\ AllSamples(ret.img_output, 0))

\* The configurations under which a standing scene is sure to clear:
\* FrameDifference and WeightedMovingMean with a threshold that is not
\* negative or without thresholding, AdaptiveBackgroundLearning with the
\* parameters of its constructor.
ClearsStandingScene(self) ==
    \/ /\ self.algorithmName \in {"FrameDifference", "WeightedMovingMean"}
       /\ ~self.enableThreshold \/ self.threshold >= 0
    \/ /\ self.algorithmName = "AdaptiveBackgroundLearning"
       /\ self.maxLearningFrames = -1 /\ self.alpha = DefaultAlpha
       /\ self.enableThreshold /\ self.threshold = DefaultThreshold

\* C27 as amended: under those configurations, whatever was fed before,
\* once the input stays the same frame the mask becomes all zero and stays
\* so.
C27_StandingSceneClears ==
    <>[](IsProcess /\ (ClearsStandingScene(inst) => AllSamples(ret.img_output, 0)))

\* AdaptiveBackgroundLearning with the parameters of its constructor, at
\* rest on a standing scene after a change of scene: the background has
\* stopped short of the frame, and the mask is all zero.
C27_Witness ==
    /\ IsABL /\ IsProcess /\ ClearsStandingScene(inst)
    /\ hist.calls = MaxLoop /\ ~hist.same
    /\ Frame(0) = Frame(1) /\ Frame(1) = Frame(2)
    /\ inst.img_background = ret.before.img_background
    /\ inst.img_background # ret.img_input
    /\ AllSamples(ret.img_output, 0)

(***************************************************************************)
(* Properties of the temporal state.                                       *)
(***************************************************************************)
\* The matrices an instance keeps from one call to the next.
Buffers(self) ==
    DOMAIN self \cap {"img_background", "img_input_prev_1", "img_input_prev_2"}

\* C28: once process has filled the background model of an instance, or a
\* history buffer of WeightedMovingMean, no call of process, setParams or
\* getParams leaves it empty.
C28_SeededOnce ==
    [][\A b \in Buffers(inst) : ~empty(inst[b]) => ~empty(inst'[b])]_vars

\* What an instance carries from one process call to the next, and what a
\* caller configures.
TemporalFields ==
    {"img_background", "img_foreground", "img_input_prev_1",
     "img_input_prev_2", "currentLearningFrame", "counter", "firstTime"}
Temporal(self) == [k \in DOMAIN self \cap TemporalFields |-> self[k]]
Parameters(self) ==
    [k \in DOMAIN self \ (TemporalFields \cup {"algorithmName"}) |-> self[k]]

\* C29: setParams, whether it returns or throws, and getParams leave the
\* background model, the frame history and the counters of every strategy
\* as they were; only process changes them, and process changes no
\* parameter.
C29_ConfigurationKeepsState ==
    [][/\ ret'.op \in {"setParams", "getParams"} =>
              Temporal(inst') = Temporal(inst)
       /\ Temporal(inst') # Temporal(inst) => ret'.op = "process"
       /\ ret'.op = "process" => Parameters(inst') = Parameters(inst)]_vars

\* A setParams call that changed parameters and then threw, on an instance
\* that holds a model: the model is the one it held before.
C29_Witness ==
    /\ IsSetParams /\ ret.threw # "none" /\ hist.calls = 1
    /\ Parameters(inst) # Parameters(ret.before)
    /\ ~empty(inst.img_background)
    /\ Temporal(inst) = Temporal(ret.before)

\* C30: the calls that return early, the first of FrameDifference and the
\* first two of WeightedMovingMean, hand back an all-zero background image
\* although the instance has stored the input; the first call of
\* AdaptiveBackgroundLearning and of AdaptiveSelectiveBackgroundLearning
\* hands back the model it was seeded with.
C30_WarmUpBackground ==
    (IsProcess /\ Len(ret.frames) <= 2) =>
        LET first == Len(ret.frames) = 1
        IN  /\ (IsFD /\ first) =>
                  /\ AllSamples(ret.img_bgmodel, 0)
                  /\ inst.img_background = Frame(0)
            /\ IsWMM =>
                  /\ AllSamples(ret.img_bgmodel, 0)
                  /\ inst.img_input_prev_1 = Frame(0)
            /\ (IsABL /\ first) =>
                  /\ ret.img_bgmodel = Frame(0)
                  /\ inst.img_background = Frame(0)
            /\ (IsASBL /\ first) =>
                  /\ ret.img_bgmodel = GrayIfColor(Frame(0))
                  /\ inst.img_background = GrayIfColor(Frame(0))

\* The first call of a FrameDifference on a frame that is not black: the
\* frame is stored, the background handed back is black.
C30_Witness ==
    /\ IsFD /\ IsProcess /\ hist.calls = 1
    /\ ~AllSamples(Frame(0), 0)
    /\ inst.img_background = Frame(0)
    /\ AllSamples(ret.img_bgmodel, 0)

(***************************************************************************)
(* Properties of the blend.                                                *)
(***************************************************************************)
\* C31: when the blending rates lie in [0, 1], a process call of
\* AdaptiveBackgroundLearning or AdaptiveSelectiveBackgroundLearning leaves
\* every stored background sample within 0..255, no farther from the input
\* sample than the call found it, and where it was when it equalled the
\* input sample.
C31_BlendContraction ==
    (IsProcess /\ (IsABL \/ IsASBL) /\ RatesInUnit(ret.before)) =>
        LET in  == IF IsASBL THEN GrayIfColor(ret.img_input) ELSE ret.img_input
            bg0 == IF empty(ret.before.img_background) THEN in
                   ELSE ret.before.img_background
            bg1 == inst.img_background
        IN  \A k \in 1..NPix : \A c \in 1..bg1.ch :
                /\ bg1.px[k][c] \in 0..MaxU8
                /\ Abs(bg1.px[k][c] - in.px[k][c]) <= Abs(bg0.px[k][c] - in.px[k][c])
                /\ bg0.px[k][c] = in.px[k][c] => bg1.px[k][c] = in.px[k][c]

\* A call of AdaptiveBackgroundLearning at rate 0.5 on a frame that
\* differs from the background: a sample has moved towards the input
\* without reaching it.
C31_Witness ==
    /\ IsABL /\ IsProcess /\ hist.calls = 2
    /\ inst.alpha * 2 = DoubleScale
    /\ \E k \in 1..NPix :
          LET b0 == ret.before.img_background.px[k][1]
              b1 == inst.img_background.px[k][1]
              x  == ret.img_input.px[k][1]
          IN  b1 # b0 /\ b1 # x /\ Abs(b1 - x) < Abs(b0 - x)

(***************************************************************************)
(* Properties of twin instances.                                           *)
(***************************************************************************)
\* C32: two fresh instances of one strategy that are given the same calls
\* in the same order return the same masks, background images, exceptions
\* and parameter texts call by call, however the calls on the one are
\* interleaved with the calls on the other; after equally many calls they
\* report the same parameters.
C32_Determinism ==
    /\ \A n \in 1..Len(hist.log[2]) :
          /\ hist.log[2][n].call = hist.log[1][n].call
          /\ hist.log[2][n].out = hist.log[1][n].out
    /\ Len(hist.log[2]) = Len(hist.log[1]) =>
          getParams(instances[2]) = getParams(instances[1])

\* The second instance has just caught up after at least two calls, among
\* them a setParams call that changed a parameter and a process call whose
\* mask is not black, and its parameters are no longer the defaults.
C32_Witness ==
    /\ ret.op # "Create" /\ ret.at = 2
    /\ Len(hist.log[2]) = MaxTwinCalls
    /\ Len(hist.log[1]) = MaxTwinCalls
    /\ \E n \in 1..MaxTwinCalls : hist.log[2][n].call.op = "setParams"
    /\ \E n \in 1..MaxTwinCalls :
          /\ hist.log[2][n].call.op = "process"
          /\ ~AllSamples(hist.log[2][n].out[1], 0)
    /\ getParams(instances[2]) # getParams(FactoryCreate(registry, cerr,
                                     instances[2].algorithmName).instance[1])

(***************************************************************************)
(* Properties of the interactive example.                                  *)
(***************************************************************************)
\* C33: in the interactive example the threshold of the FrameDifference
\* instance is always within 0..255; '+' raises it by one and leaves it at
\* 255, '-' lowers it by one and leaves it at 0, 't' flips enableThreshold
\* and leaves threshold alone, 'p' changes neither, and no key press ends
\* in an exception.
C33_ThresholdRange ==
    /\ inst.threshold \in 0..MaxU8
    /\ ret.op # "terminate"
    /\ ret.op = "key" =>
          LET was == ret.before
          IN  /\ ret.key = "+" =>
                    /\ inst.threshold = Min(was.threshold + 1, MaxU8)
                    /\ inst.enableThreshold = was.enableThreshold
              /\ ret.key = "-" =>
                    /\ inst.threshold = Max(was.threshold - 1, 0)
                    /\ inst.enableThreshold = was.enableThreshold
              /\ ret.key = "t" =>
                    /\ inst.enableThreshold = ~was.enableThreshold
                    /\ inst.threshold = was.threshold
              /\ ret.key \in {"p", "none"} =>
                    /\ inst.threshold = was.threshold
                    /\ inst.enableThreshold = was.enableThreshold

\* '+' has just been pressed at 255 and left it there, '-' was pressed at 0
\* before, and 't' has left the threshold switched off.
C33_Witness ==
    /\ ret.op = "key" /\ ret.key = "+"
    /\ ret.before.threshold = MaxU8 /\ inst.threshold = MaxU8
    /\ "-" \in hist.held
    /\ ~inst.enableThreshold

====
